---- MODULE Spec2Model ----
(***************************************************************************)
(* A model of the SignalR hub client (native, multi-threaded adapter):     *)
(* the action registry, the single-shot completer/future pair, the         *)
(* multi-item stream, callback routing, the outbound sink and the          *)
(* reference-counted teardown of client handles.                           *)
(***************************************************************************)
EXTENDS Integers, Sequences, FiniteSets, TLC

VARIABLES
    index,      \* UpdatableActionStorage._index
    data,       \* UpdatableActionStorage._data : key -> action
    poisoned,   \* the registry mutex was poisoned by a panic under the lock
    calls,      \* the invoke / enumerate calls issued so far, in allocation order
    wire,       \* the frames handed to the sink, in order
    handles,    \* SignalRClient handles held by the application
    tokens,     \* unregistration tokens held by the application, per key
    ctxs,       \* InvocationContexts a handler moved into a spawned task
    invoked,    \* the handler invocations made so far, in order
    receiver,   \* the receive task: idle, running, aborted, stopped, ended,
                \* panicked, or deadlocked on the registry mutex it holds
    hs,         \* how connect went: idle, or what answered the handshake request
    rx,         \* the transport message being received: the frames the server
                \* encoded into it, its records, and what was routed of them
    argued,     \* the calls of InvocationContext::argument made by handlers
    mf,         \* a ManualFuture with its completer and the task awaiting it
    ws,         \* the single-threaded adapter: socket, ConnectionState, connect
    ms,         \* a ManualStream with its completer and its consumer
    ac          \* an ArgumentConfiguration and the invocation built from it

\* the client, its registry and its calls
client ==
    <<index, data, poisoned, calls, wire, handles, tokens, ctxs, invoked, receiver, hs, argued, mf,
      ws, ms, ac>>

vars ==
    <<index, data, poisoned, calls, wire, handles, tokens, ctxs, invoked, receiver, hs, rx,
      argued, mf, ws, ms, ac>>

-----------------------------------------------------------------------------
(* Bounds of the model *)

MaxCalls == 2
MaxHandles == 2
MaxItems == 2
MaxDispatch == 2
MaxRegs == 2
MaxSends == 2
MaxBatch == 2
MaxArgs == 2
MaxWakers == 2
MaxPolls == 4
MaxMessages == 2
MaxPassed == 3
MaxPushes == 3

(* Inputs *)

None == "None"
Targets == {"a", "a_1"}
OneTarget == {"a"}
CallbackTargets == {"cb"}
Handlers == {"h1", "h2"}
\* the k-th value the server streams; these are the payloads that deserialize as T
ItemValue(k) == "v" \o ToString(k)
GoodValues == {ItemValue(k) : k \in 1..MaxItems}
Payloads == GoodValues \cup {"bad"}

-----------------------------------------------------------------------------
(* Frames *)

Frame(t, id, tg, res, err, it) ==
    [type |-> t, invocationId |-> id, target |-> tg, result |-> res, error |-> err, item |-> it]

TypeInvocation == 1
TypeStreamItem == 2
TypeCompletion == 3
TypeStreamInvocation == 4
TypeCancelInvocation == 5
TypePing == 6
TypeClose == 7
TypeOther == 8

create_single(target) == Frame(TypeInvocation, None, target, None, None, None)

create_multiple(target) == Frame(TypeStreamInvocation, None, target, None, None, None)

with_invocation_id(inv, id) == [inv EXCEPT !.invocationId = id]

\* a defect: the Completion is built without the invocation id it answers
create_result_without_id(id, v) == Frame(TypeCompletion, None, None, v, None, None)

create_result(id, v) == Frame(TypeCompletion, id, None, v, None, None)

\* serde: Invocation.target is a required String
ParseInvocationOk(f) == f.target # None

\* serde: Completion<R>.invocation_id is required; result is Option<R>
ParseCompletionOk(f) == f.invocationId # None /\ f.result \in GoodValues \cup {None}

\* serde: StreamItem<R>.invocation_id and item are required
ParseStreamItemOk(f) == f.invocationId # None /\ f.item \in GoodValues

is_result(f) == f.result # None

-----------------------------------------------------------------------------
(* InvocationContext::argument. A JSON value is kept as its kind; T is the   *)
(* type the handler asks for.                                                *)

JsonKinds == {"string", "number", "object"}

ArgTypes == {"String", "i32", "TestEntity"}

\* Invocation.arguments: absent, or a list of values
Arguments ==
    {[some |-> FALSE, list |-> <<>>]}
        \cup {[some |-> TRUE, list |-> l] : l \in UNION {[1..n -> JsonKinds] : n \in 0..MaxArgs}}

\* parse_message::<T> of the text of the value
Deserializes(v, ty) ==
    \/ v = "string" /\ ty = "String"
    \/ v = "number" /\ ty = "i32"
    \/ v = "object" /\ ty = "TestEntity"

\* serde_json::Value::as_str is Some for a JSON string only
as_str_is_some(v) == v = "string"

\* InvocationContext::argument::<ty>(i): the error message of a value that
\* does not deserialize is formatted from as_str().unwrap()
argument(args, i, ty) ==
    IF args.some
    THEN IF Len(args.list) > i
         THEN IF Deserializes(args.list[i + 1], ty) THEN "Ok"
              ELSE IF as_str_is_some(args.list[i + 1]) THEN "Err"
              ELSE "Panic"
         ELSE "Err"
    ELSE "Err"

-----------------------------------------------------------------------------
(* Framing: a text is a sequence of characters; the JSON text of a frame is  *)
(* kept at the granularity of its delimiters and field values.               *)

RECORD_SEPARATOR == "RS"

\* serde_json writes a control character inside a string as its escape
Escape(v) == IF v = RECORD_SEPARATOR THEN "\\u001e" ELSE v

Unescape(v) == IF v = "\\u001e" THEN RECORD_SEPARATOR ELSE v

\* serde_json::to_string of a frame
to_string(f) ==
    <<"{", ToString(f.type), Escape(f.invocationId), Escape(f.target),
      Escape(f.result), Escape(f.error), Escape(f.item), "}">>

\* MessageParser::to_json
to_json(f) == to_string(f) \o <<RECORD_SEPARATOR>>

\* the text of a transport message carrying the frames fs
RECURSIVE Encoded(_)
Encoded(fs) == IF fs = <<>> THEN <<>> ELSE to_json(Head(fs)) \o Encoded(Tail(fs))

\* str::split(RECORD_SEPARATOR): the pieces between separators, empty ones included
RECURSIVE SplitFrom(_, _)
SplitFrom(txt, piece) ==
    IF txt = <<>> THEN <<piece>>
    ELSE IF Head(txt) = RECORD_SEPARATOR THEN <<piece>> \o SplitFrom(Tail(txt), <<>>)
    ELSE SplitFrom(Tail(txt), Append(piece, Head(txt)))

split(txt) == SplitFrom(txt, <<>>)

\* MessageParser::strip_record_separator: trim_end_matches
RECURSIVE strip_record_separator(_)
strip_record_separator(r) ==
    IF r # <<>> /\ r[Len(r)] = RECORD_SEPARATOR
    THEN strip_record_separator(SubSeq(r, 1, Len(r) - 1))
    ELSE r

\* a defect: the pieces are not filtered
get_messages_unfiltered(m) ==
    IF m.text THEN [i \in DOMAIN split(m.txt) |-> strip_record_separator(split(m.txt)[i])] ELSE <<>>

\* CommunicationClient::get_messages
get_messages(m) ==
    IF m.text
    THEN SelectSeq([i \in DOMAIN split(m.txt) |-> strip_record_separator(split(m.txt)[i])],
                   LAMBDA r : Len(r) > 0)
    ELSE <<>>

\* no transport message is being worked on
NoRead == [frames |-> <<>>, records |-> <<>>, routed |-> <<>>]

\* what a record that is not the JSON of a frame parses to
Unparsed == Frame(0, None, None, None, None, None)

\* the envelope parse of start_receiving and the typed parse of process_message
Parse(r) ==
    IF Len(r) = 8 /\ r[1] = "{" /\ r[8] = "}" /\ r[2] \in {ToString(n) : n \in 1..8}
    THEN Frame(CHOOSE n \in 1..8 : ToString(n) = r[2],
               Unescape(r[3]), Unescape(r[4]), Unescape(r[5]), Unescape(r[6]), Unescape(r[7]))
    ELSE Unparsed

-----------------------------------------------------------------------------
(* Registry keys *)

increment(i) == i + 1

\* a defect: the counter is left out of the key
create_key_without_index(target, n) == target

create_key(target, n) == target \o "_" \o ToString(n)

AllIds == {create_key(t, n) : t \in OneTarget, n \in 1..MaxCalls}

\* every key an inbound frame may carry
KeyUniverse == AllIds \cup CallbackTargets

-----------------------------------------------------------------------------
(* One invoke / enumerate call: its program position, the ManualFuture or   *)
(* ManualStream it awaits, and the frames processed so far that carry its   *)
(* invocation id and the values its completer was given:                     *)
(*   n       the counter value create_key formatted into the id              *)
(*   first   the payload of the first Completion processed for the id        *)
(*   again   a further Completion was processed for the id (invoke)          *)
(*   expect  the items of the StreamItems processed for the id before that   *)
(*   late    a StreamItem was processed for the id after it (enumerate)      *)
(*   given   the values handed to ManualFutureCompleter::complete            *)
(*   rejected  the connection answered the send of an enumerate with an error *)

NewCall(op, target, n, id) ==
    [op |-> op, target |-> target, n |-> n, id |-> id,
     pc |-> "send", ret |-> None, val |-> None,
     fut |-> "Incomplete", fval |-> None, awake |-> FALSE,
     queue |-> <<>>, waker |-> FALSE, observed |-> <<>>,
     given |-> <<>>, first |-> "none", again |-> FALSE, expect |-> <<>>, late |-> FALSE,
     rejected |-> FALSE]

\* ManualFutureCompleter::complete
FutureComplete(c, v) ==
    [c EXCEPT !.fut = "Complete", !.fval = v,
              !.awake = IF c.fut = "Waiting" THEN TRUE ELSE c.awake,
              !.given = Append(c.given, v)]

\* ManualFutureCompleter::cancel: the state becomes Complete(None); no waker is woken
FutureCancel(c) ==
    [c EXCEPT !.fut = "Complete", !.fval = None]

\* ManualFuture::poll by the awaiting task; Ready(v) ends invoke_internal with Ok(v)
FuturePoll(c) ==
    IF c.fut = "Complete" /\ c.fval # None
    THEN [c EXCEPT !.fval = None, !.pc = "done", !.ret = "Ok", !.val = c.fval, !.awake = FALSE]
    ELSE IF c.fut = "Complete"
    THEN [c EXCEPT !.awake = FALSE]
    ELSE [c EXCEPT !.fut = "Waiting", !.awake = FALSE]

\* a defect: push_front in place of push_back
StreamPushFront(c, item) ==
    [c EXCEPT !.queue = <<item>> \o c.queue,
              !.waker = FALSE,
              !.awake = IF c.waker THEN TRUE ELSE c.awake]

\* ManualStreamState::push
StreamPush(c, item) ==
    [c EXCEPT !.queue = Append(c.queue, item),
              !.waker = FALSE,
              !.awake = IF c.waker THEN TRUE ELSE c.awake]

\* ManualStreamState::close
StreamClose(c) == StreamPush(c, "End")

\* ManualStream::poll_next by the consumer (while let Some(item) = s.next().await)
StreamPollNext(c) ==
    IF c.queue # <<>>
    THEN IF Head(c.queue) = "End"
         THEN [c EXCEPT !.queue = Tail(c.queue), !.observed = Append(c.observed, "End"),
                        !.pc = "done", !.awake = FALSE]
         ELSE [c EXCEPT !.queue = Tail(c.queue), !.observed = Append(c.observed, Head(c.queue))]
    ELSE [c EXCEPT !.waker = TRUE, !.awake = FALSE]

-----------------------------------------------------------------------------
(* ManualFuture and ManualFutureCompleter with the wakers of the awaiting    *)
(* task: state, waker and value are the shared State<T>; polled lists the    *)
(* wakers of the polls made, woken the wakers that were woken, got what the  *)
(* polls returned as Ready, and used how the completer was consumed.         *)

NoWaker == 0

Wakers == 1..MaxWakers

\* ManualFuture::new
ManualFutureNew ==
    [state |-> "Incomplete", waker |-> NoWaker, value |-> None,
     polled |-> <<>>, woken |-> {}, got |-> <<>>, used |-> "no"]

\* a defect: a poll with another waker leaves the registered waker in place
poll_keeps_waker(f, w) ==
    IF f.state = "Incomplete"
    THEN [f EXCEPT !.state = "Waiting", !.waker = w, !.polled = Append(@, w)]
    ELSE IF f.state = "Waiting"
    THEN [f EXCEPT !.polled = Append(@, w)]
    ELSE IF f.value # None
    THEN [f EXCEPT !.value = None, !.got = Append(@, f.value), !.polled = Append(@, w)]
    ELSE [f EXCEPT !.polled = Append(@, w)]

\* ManualFuture::poll with the waker w
poll(f, w) ==
    IF f.state = "Incomplete"
    THEN [f EXCEPT !.state = "Waiting", !.waker = w, !.polled = Append(@, w)]
    ELSE IF f.state = "Waiting"
    THEN IF f.waker = w
         THEN [f EXCEPT !.polled = Append(@, w)]
         ELSE [f EXCEPT !.waker = w, !.polled = Append(@, w)]
    ELSE IF f.value # None
    THEN [f EXCEPT !.value = None, !.got = Append(@, f.value), !.polled = Append(@, w)]
    ELSE [f EXCEPT !.polled = Append(@, w)]

\* ManualFutureCompleter::complete(v); the completer is consumed
complete(f, v) ==
    [f EXCEPT !.state = "Complete", !.value = v, !.waker = NoWaker,
              !.woken = IF f.state = "Waiting" THEN @ \cup {f.waker} ELSE @,
              !.used = "complete"]

\* ManualFutureCompleter::cancel; the completer is consumed
cancel(f) ==
    [f EXCEPT !.state = "Complete", !.value = None, !.waker = NoWaker, !.used = "cancel"]

-----------------------------------------------------------------------------
(* Actions held by the registry *)

InvocationAction(call) == [kind |-> "invocation", call |-> call, handler |-> None, completer |-> TRUE]

EnumerableAction(call) == [kind |-> "stream", call |-> call, handler |-> None, completer |-> TRUE]

CallbackAction(h) == [kind |-> "callback", call |-> 0, handler |-> h, completer |-> FALSE]

EmptyData == [k \in {} |-> CallbackAction(None)]

\* Drop of one action: InvocationAction cancels a completer it still holds,
\* EnumerableAction closes its stream; a CallbackAction only releases its client.
DropAction(cs, a) ==
    IF a.kind = "invocation"
    THEN IF a.completer THEN [cs EXCEPT ![a.call] = FutureCancel(cs[a.call])] ELSE cs
    ELSE IF a.kind = "stream"
    THEN [cs EXCEPT ![a.call] = StreamClose(cs[a.call])]
    ELSE cs

\* Drop of the whole map (clear, or the last Arc going away)
DropAll(cs, d) ==
    [c \in DOMAIN cs |->
        IF \E k \in DOMAIN d : d[k].call = c /\ d[k].kind = "invocation" /\ d[k].completer
        THEN FutureCancel(cs[c])
        ELSE IF \E k \in DOMAIN d : d[k].call = c /\ d[k].kind = "stream"
        THEN StreamClose(cs[c])
        ELSE cs[c]]

\* a defect: insert replaces the entry a key already has
InsertReplaces(d, p, key, a) ==
    IF p THEN d ELSE [k \in DOMAIN d \cup {key} |-> IF k = key THEN a ELSE d[k]]

\* UpdatableActionStorage::insert: TRUE when the action is stored
InsertOk(d, p, key) == ~p /\ key \notin DOMAIN d

Insert(d, p, key, a) == IF InsertOk(d, p, key) THEN d @@ (key :> a) ELSE d

\* UpdatableActionStorage::update finds the action to run f on
UpdateFinds(d, p, key) == ~p /\ key \in DOMAIN d

\* a defect: remove leaves the entry in the map
RemoveNothing(d, p, key) == d

\* UpdatableActionStorage::remove
Remove(d, p, key) == IF p THEN d ELSE [k \in DOMAIN d \ {key} |-> d[k]]

-----------------------------------------------------------------------------
(* Reference counts.  Every SignalRClient clone holds one reference to the  *)
(* connection and two storage clones; a CallbackAction and a kept           *)
(* InvocationContext each hold a SignalRClient clone; a token and the       *)
(* receive task each hold one storage clone.                                *)

NumCallbacks(d) == Cardinality({k \in DOMAIN d : d[k].kind = "callback"})

NumLive(sq) == Cardinality({i \in DOMAIN sq : sq[i].st = "live"})

\* Arc::strong_count of the connection
ConnRefs(h, cx, d) == h + NumLive(cx) + NumCallbacks(d)

\* Arc::strong_count of UpdatableActionStorage._data
StorageRefs(h, tk, cx, d, rcv) ==
    2 * (h + NumLive(cx) + NumCallbacks(d)) + NumLive(tk)
    + (IF rcv \in {"running", "aborted", "deadlocked"} THEN 1 ELSE 0)

\* The effect of dropping clones: CommunicationClient::disconnect aborts the
\* receive task when the last connection reference goes; the map and its
\* actions are dropped with the last storage clone.
Release(h, tk, cx, d, cs, rcv) ==
    LET rcv2 == IF rcv = "running" /\ ConnRefs(h, cx, d) = 0 THEN "aborted" ELSE rcv
        gone == StorageRefs(h, tk, cx, d, rcv2) = 0
    IN  /\ handles' = h
        /\ tokens' = tk
        /\ ctxs' = cx
        /\ receiver' = rcv2
        /\ data' = IF gone THEN EmptyData ELSE d
        /\ calls' = IF gone THEN DropAll(cs, d) ELSE cs

\* a defect: the frame is written ahead of the frames already handed over
SinkSendFront(w, f) == <<f>> \o w

\* CommunicationClient::send: under the lock of the connection the frame is
\* handed to the sink, after every frame handed over before
SinkSend(w, f) == Append(w, f)

\* the registry mutex is not held for ever by a deadlocked receive task, so
\* that a lock() of another thread returns
RegistryFree == receiver # "deadlocked"

\* handles mutably borrowed by a pending invoke, enumerate or live stream
Busy == Cardinality({c \in DOMAIN calls : calls[c].pc \in {"send", "await", "consume"}})

-----------------------------------------------------------------------------
(* The single-threaded adapter: the polling socket, the ConnectionState the  *)
(* interval callback and connect_internal share, and the task in connect.    *)

\* records as the server writes them: a handshake response, a handshake
\* response with an error field, a Ping, a text that is no JSON, an empty text
HandshakeOk == "{}"

HandshakeError == "{\"error\":\"e\"}"

PingRecord == "{\"type\":6}"

Junk == "junk"

Empty == ""

Records == {HandshakeOk, HandshakeError, PingRecord, Junk, Empty}

\* the texts the socket delivers: one record, or two records batched
SocketMessages == UNION {[1..n -> Records] : n \in 1..MaxBatch}

\* parse_message::<HandshakeResponse>: every JSON object is one (error is optional)
ParseHandshakeOk(r) == r \in {HandshakeOk, HandshakeError, PingRecord}

\* parse_message::<Ping>: a JSON object with a type
ParsePingOk(r) == r = PingRecord

\* CommunicationClient::receive_messages: the records of every message the
\* socket has buffered, without the empty ones
RECURSIVE receive_messages(_)
receive_messages(msgs) ==
    IF msgs = <<>> THEN <<>>
    ELSE SelectSeq(Head(msgs), LAMBDA r : r # Empty) \o receive_messages(Tail(msgs))

\* CommunicationClient::create, before connect_internal runs:
\*   status     what PollingClient::status reports
\*   state      the ConnectionState
\*   connected  the future of Connect(..): Incomplete or Complete
\*   handshake  the future of Handshake(..): none yet, Incomplete, or its value
\*   pc         where connect is: create, await_connected, await_handshake, ok, err
\*   polling    the interval that calls polling_loop is set
\*   sent       what was handed to send_string
\*   inbox      the messages the socket has buffered
\*   msgs       how many messages the server has sent
\*   routed     the records handed to process_message, with the state they were routed in
\*   lost       the records received and dropped
\*   reported   a run of polling_loop has seen the status Connected
WasmNew ==
    [status |-> "Connecting", state |-> "Connect", connected |-> "Incomplete",
     handshake |-> "none", pc |-> "create", polling |-> FALSE, sent |-> <<>>,
     inbox |-> <<>>, msgs |-> 0, routed |-> <<>>, lost |-> <<>>, reported |-> FALSE]

\* a defect: the records of a poll in the Handshake state are routed
polling_loop_routes_early(w) ==
    IF w.status # "Connected" THEN w
    ELSE IF w.state = "Connect"
    THEN [w EXCEPT !.connected = "Complete", !.reported = TRUE]
    ELSE LET messages == receive_messages(w.inbox)
         IN  [w EXCEPT !.inbox = <<>>, !.reported = TRUE,
                       !.routed = @ \o [k \in DOMAIN messages |->
                                            [record |-> messages[k], state |-> w.state]]]

\* a defect: the handshake completes on the first record of a poll that
\* received any
polling_loop_first_record(w) ==
    IF w.status # "Connected" THEN w
    ELSE IF w.state = "Connect"
    THEN [w EXCEPT !.connected = "Complete", !.reported = TRUE]
    ELSE LET messages == receive_messages(w.inbox)
         IN  IF w.state = "Handshake"
             THEN [w EXCEPT !.inbox = <<>>, !.reported = TRUE,
                            !.lost = @ \o messages,
                            !.handshake =
                                IF Len(messages) >= 1 /\ w.handshake = "Incomplete"
                                THEN IF ParseHandshakeOk(messages[1]) THEN "true" ELSE "false"
                                ELSE @]
             ELSE [w EXCEPT !.inbox = <<>>, !.reported = TRUE,
                            !.routed = @ \o [k \in DOMAIN SelectSeq(messages, ParsePingOk) |->
                                                 [record |-> SelectSeq(messages, ParsePingOk)[k],
                                                  state |-> w.state]],
                            !.lost = @ \o SelectSeq(messages, LAMBDA r : ~ParsePingOk(r))]

\* CommunicationClient::polling_loop, one run of the interval callback
polling_loop(w) ==
    IF w.status # "Connected" THEN w
    ELSE IF w.state = "Connect"
    THEN [w EXCEPT !.connected = "Complete", !.reported = TRUE]
    ELSE LET messages == receive_messages(w.inbox)
         IN  IF w.state = "Handshake"
             THEN [w EXCEPT !.inbox = <<>>, !.reported = TRUE,
                            !.lost = @ \o messages,
                            !.handshake =
                                IF Len(messages) = 1 /\ w.handshake = "Incomplete"
                                THEN IF ParseHandshakeOk(messages[1]) THEN "true" ELSE "false"
                                ELSE @]
             ELSE [w EXCEPT !.inbox = <<>>, !.reported = TRUE,
                            !.routed = @ \o [k \in DOMAIN SelectSeq(messages, ParsePingOk) |->
                                                 [record |-> SelectSeq(messages, ParsePingOk)[k],
                                                  state |-> w.state]],
                            !.lost = @ \o SelectSeq(messages, LAMBDA r : ~ParsePingOk(r))]

-----------------------------------------------------------------------------
(* ManualStream with the wakers of its consumer: queue and waker are the     *)
(* shared ManualStreamState; asleep is the waker the consumer is parked on   *)
(* after a poll that returned Pending and until that waker is woken; got     *)
(* lists what the polls returned as Ready, woken the wakers that were woken, *)
(* pushed counts the push and close calls, polls the polls.                  *)

\* ManualStream::create
ManualStreamNew ==
    [queue |-> <<>>, waker |-> NoWaker, asleep |-> NoWaker, got |-> <<>>,
     woken |-> <<>>, pushed |-> 0, polls |-> 0]

\* Waker::wake on the waker taken from the state: the task parked on it runs
wake(s, w) ==
    IF w = NoWaker THEN s
    ELSE [s EXCEPT !.woken = Append(@, w),
                   !.asleep = IF @ = w THEN NoWaker ELSE @]

\* ManualStreamState::push, under the lock of the queue: push_back, then the
\* registered waker is taken and woken
push(s, item) ==
    wake([s EXCEPT !.queue = Append(@, item), !.waker = NoWaker,
                   !.pushed = @ + 1], s.waker)

\* ManualStreamState::close: the end marker is queued like an item
close(s) == push(s, "End")

\* a defect: a poll that finds a waker registered leaves it in place
poll_next_keeps_waker(s, w) ==
    IF s.queue # <<>>
    THEN [s EXCEPT !.queue = Tail(@), !.got = Append(@, Head(s.queue)),
                   !.asleep = NoWaker, !.polls = @ + 1]
    ELSE [s EXCEPT !.waker = IF @ = NoWaker THEN w ELSE @,
                   !.asleep = w, !.polls = @ + 1]

\* ManualStream::poll_next with the waker w, under the lock of the queue:
\* Ready with the front of the queue, or the waker is stored and Pending
poll_next(s, w) ==
    IF s.queue # <<>>
    THEN [s EXCEPT !.queue = Tail(@), !.got = Append(@, Head(s.queue)),
                   !.asleep = NoWaker, !.polls = @ + 1]
    ELSE [s EXCEPT !.waker = w, !.asleep = w, !.polls = @ + 1]

-----------------------------------------------------------------------------
(* ArgumentConfiguration: the Invocation being built and the values passed   *)
(* to argument() so far.                                                     *)

\* the values a configuration closure passes to argument(): an integer, a
\* String, a struct, and a map whose keys are tuples (serde_json has no JSON
\* for it)
RustValues == {"i32", "String", "TestEntity", "TupleKeyMap"}

\* MessageParser::to_json_value
to_json_value(v) ==
    IF v = "i32" THEN [ok |-> TRUE, json |-> "number"]
    ELSE IF v = "String" THEN [ok |-> TRUE, json |-> "string"]
    ELSE IF v = "TestEntity" THEN [ok |-> TRUE, json |-> "object"]
    ELSE [ok |-> FALSE, json |-> None]

\* a defect: a value that does not serialize takes a slot of the list
with_argument_null_on_error(args, v) ==
    IF to_json_value(v).ok THEN Append(args, to_json_value(v).json) ELSE Append(args, "null")

\* Invocation::with_argument on the arguments of the invocation; on an error
\* ArgumentConfiguration::argument logs and goes on
with_argument(args, v) ==
    IF to_json_value(v).ok THEN Append(args, to_json_value(v).json) ELSE args

\* before invoke_with_args / send_with_args / enumerate_with_args is called:
\*   invocation  the Invocation wrapped by ArgumentConfiguration::new, if any
\*   arguments   Invocation.arguments
\*   passed      the values passed to argument() so far
\*   sent        the invocation handed to the connection, with its arguments, if any
ArgumentConfigurationNew ==
    [invocation |-> <<>>, arguments |-> <<>>, passed |-> <<>>, sent |-> <<>>]

-----------------------------------------------------------------------------
Init ==
    /\ index = 0
    /\ data = EmptyData
    /\ poisoned = FALSE
    /\ calls = <<>>
    /\ wire = <<>>
    /\ handles = 1
    /\ tokens = <<>>
    /\ ctxs = <<>>
    /\ invoked = <<>>
    /\ receiver = "running"
    /\ hs = "response"
    /\ rx = NoRead
    /\ argued = <<>>
    /\ mf = ManualFutureNew
    /\ ws = WasmNew
    /\ ms = ManualStreamNew
    /\ ac = ArgumentConfigurationNew

\* what can answer the handshake request: a handshake response, one carrying an
\* error field, a frame that is no handshake response, the end of the inbound
\* stream, a transport error, or the request could not be written
HandshakeOutcomes ==
    {"response", "error_response", "malformed", "closed", "transport_error", "send_failed"}

\* before connect: no client, no receive task
InitConnect ==
    /\ index = 0
    /\ data = EmptyData
    /\ poisoned = FALSE
    /\ calls = <<>>
    /\ wire = <<>>
    /\ handles = 0
    /\ tokens = <<>>
    /\ ctxs = <<>>
    /\ invoked = <<>>
    /\ receiver = "idle"
    /\ hs = "idle"
    /\ rx = NoRead
    /\ argued = <<>>
    /\ mf = ManualFutureNew
    /\ ws = WasmNew
    /\ ms = ManualStreamNew
    /\ ac = ArgumentConfigurationNew

\* CommunicationClient::connect_internal: the handshake request is written and
\* one inbound frame is awaited; the frame is not parsed
Connect(outcome) ==
    /\ hs = "idle"
    /\ hs' = outcome
    /\ IF outcome \in {"response", "error_response", "malformed"}
       THEN handles' = 1 /\ receiver' = "running"
       ELSE handles' = handles /\ receiver' = receiver
    /\ UNCHANGED <<ws, ms, ac, mf, argued, rx, index, data, poisoned, calls, wire, tokens, ctxs, invoked>>

(* The task awaiting a ManualFuture, and the owner of its completer *)

\* the task polls: when first awaited, when woken, or spuriously; it does not
\* poll a future that returned Ready
ManualFuturePoll(w) ==
    /\ mf.got = <<>>
    /\ Len(mf.polled) < MaxPolls
    /\ mf' = poll(mf, w)
    /\ UNCHANGED <<ws, ms, ac, rx, argued, index, data, poisoned, calls, wire, handles, tokens, ctxs,
                   invoked, receiver, hs>>

ManualFutureComplete(v) ==
    /\ mf.used = "no"
    /\ mf' = complete(mf, v)
    /\ UNCHANGED <<ws, ms, ac, rx, argued, index, data, poisoned, calls, wire, handles, tokens, ctxs,
                   invoked, receiver, hs>>

ManualFutureCancel ==
    /\ mf.used = "no"
    /\ mf' = cancel(mf)
    /\ UNCHANGED <<ws, ms, ac, rx, argued, index, data, poisoned, calls, wire, handles, tokens, ctxs,
                   invoked, receiver, hs>>

(* The single-threaded adapter: connect and the interval callback *)

\* CommunicationClient::connect: create, then connect_internal up to its first
\* await; created tells whether PollingClient::new returned a client
WasmConnect(created) ==
    /\ ws.pc = "create"
    /\ ws' = IF created
             THEN [ws EXCEPT !.pc = "await_connected", !.polling = TRUE]
             ELSE [ws EXCEPT !.pc = "err"]
    /\ UNCHANGED <<ms, ac, mf, argued, rx, hs, index, data, poisoned, calls, wire, handles,
                   tokens, ctxs, invoked, receiver>>

\* connect_internal resumes from connected.awaiter(): the handshake request is
\* sent and the state becomes Handshake; when the send fails connect returns
\* the error and the drop of the client clears the interval
WasmHandshakeSend(ok) ==
    /\ ws.pc = "await_connected"
    /\ ws.connected = "Complete"
    /\ ws' = IF ok
             THEN [ws EXCEPT !.sent = Append(@, "HandshakeRequest"), !.state = "Handshake",
                             !.handshake = "Incomplete", !.pc = "await_handshake"]
             ELSE [ws EXCEPT !.pc = "err", !.polling = FALSE]
    /\ UNCHANGED <<ms, ac, mf, argued, rx, hs, index, data, poisoned, calls, wire, handles,
                   tokens, ctxs, invoked, receiver>>

\* connect_internal resumes from handshake.awaiter()
WasmShook ==
    /\ ws.pc = "await_handshake"
    /\ ws.handshake \in {"true", "false"}
    /\ ws' = IF ws.handshake = "true"
             THEN [ws EXCEPT !.state = "Process", !.pc = "ok"]
             ELSE [ws EXCEPT !.pc = "err", !.polling = FALSE]
    /\ UNCHANGED <<ms, ac, mf, argued, rx, hs, index, data, poisoned, calls, wire, handles,
                   tokens, ctxs, invoked, receiver>>

\* the interval fires
WasmPollingLoop ==
    /\ ws.polling
    /\ ws' = polling_loop(ws)
    /\ UNCHANGED <<ms, ac, mf, argued, rx, hs, index, data, poisoned, calls, wire, handles,
                   tokens, ctxs, invoked, receiver>>

\* the socket changes its status
SocketStatus(s) ==
    /\ ws.polling
    /\ <<ws.status, s>> \in {<<"Connecting", "Connected">>, <<"Connecting", "Error">>,
                            <<"Connected", "Disconnected">>, <<"Connected", "Error">>}
    /\ ws' = [ws EXCEPT !.status = s]
    /\ UNCHANGED <<ms, ac, mf, argued, rx, hs, index, data, poisoned, calls, wire, handles,
                   tokens, ctxs, invoked, receiver>>

\* the socket buffers a message of the server
SocketMessage(m) ==
    /\ ws.status = "Connected"
    /\ ws.msgs < MaxMessages
    /\ ws' = [ws EXCEPT !.inbox = Append(@, m), !.msgs = @ + 1]
    /\ UNCHANGED <<ms, ac, mf, argued, rx, hs, index, data, poisoned, calls, wire, handles,
                   tokens, ctxs, invoked, receiver>>

(* ArgumentConfiguration: the closure of a *_with_args call *)

\* ArgumentConfiguration::new(invocation) for the Invocation of the call
Configure(inv) ==
    /\ ac.invocation = <<>>
    /\ ac' = [ac EXCEPT !.invocation = <<inv>>]
    /\ UNCHANGED <<ws, ms, mf, argued, rx, hs, index, data, poisoned, calls, wire, handles,
                   tokens, ctxs, invoked, receiver>>

\* ArgumentConfiguration::argument(v)
Argument(v) ==
    /\ ac.invocation # <<>> /\ ac.sent = <<>>
    /\ Len(ac.passed) < MaxPassed
    /\ ac' = [ac EXCEPT !.passed = Append(@, v), !.arguments = with_argument(@, v)]
    /\ UNCHANGED <<ws, ms, mf, argued, rx, hs, index, data, poisoned, calls, wire, handles,
                   tokens, ctxs, invoked, receiver>>

\* ArgumentConfiguration::build_invocation, and the send of what it returns
BuildInvocation ==
    /\ ac.invocation # <<>> /\ ac.sent = <<>>
    /\ ac' = [ac EXCEPT !.sent = <<[invocation |-> ac.invocation[1], arguments |-> ac.arguments]>>]
    /\ UNCHANGED <<ws, ms, mf, argued, rx, hs, index, data, poisoned, calls, wire, handles,
                   tokens, ctxs, invoked, receiver>>

(* The consumer of a ManualStream and the owner of its completer *)

\* the consumer polls: when it first awaits next(), when woken, or
\* spuriously, from the task it is in at the time
ManualStreamPollNext(w) ==
    /\ ms.polls < MaxPolls
    /\ ms' = poll_next(ms, w)
    /\ UNCHANGED <<ws, ac, mf, rx, argued, index, data, poisoned, calls, wire, handles, tokens, ctxs,
                   invoked, receiver, hs>>

ManualStreamPush(item) ==
    /\ ms.pushed < MaxPushes
    /\ ms' = push(ms, item)
    /\ UNCHANGED <<ws, ac, mf, rx, argued, index, data, poisoned, calls, wire, handles, tokens, ctxs,
                   invoked, receiver, hs>>

ManualStreamClose ==
    /\ ms.pushed < MaxPushes
    /\ ms' = close(ms)
    /\ UNCHANGED <<ws, ac, mf, rx, argued, index, data, poisoned, calls, wire, handles, tokens, ctxs,
                   invoked, receiver, hs>>

(* SignalRClient: handles *)

CloneHandle ==
    /\ handles > Busy
    /\ handles < MaxHandles
    /\ handles' = handles + 1
    /\ UNCHANGED <<ws, ms, ac, mf, argued, rx, hs, index, data, poisoned, calls, wire, tokens, ctxs, invoked, receiver>>

\* a defect: the clones held by registered callbacks are not counted, the
\* drop of the last handle of the application disconnects
DropHandleIgnoresCallbacks ==
    /\ handles > Busy
    /\ Release(handles - 1, tokens, ctxs, data, calls,
               IF receiver = "running" /\ handles - 1 + NumLive(ctxs) = 0
               THEN "aborted" ELSE receiver)
    /\ UNCHANGED <<ws, ms, ac, mf, argued, rx, hs, index, poisoned, wire, invoked>>

\* a defect: the drop of any handle disconnects
DropHandleDisconnects ==
    /\ handles > Busy
    /\ Release(handles - 1, tokens, ctxs, data, calls,
               IF receiver = "running" THEN "aborted" ELSE receiver)
    /\ UNCHANGED <<ws, ms, ac, mf, argued, rx, hs, index, poisoned, wire, invoked>>

\* Drop for SignalRClient (disconnect(self) runs the same code)
DropHandle ==
    /\ handles > Busy
    /\ Release(handles - 1, tokens, ctxs, data, calls, receiver)
    /\ UNCHANGED <<ws, ms, ac, mf, argued, rx, hs, index, poisoned, wire, invoked>>

\* the aborted receive task is dropped by the runtime, with its storage clone
ReapReceiver ==
    /\ receiver = "aborted"
    /\ Release(handles, tokens, ctxs, data, calls, "stopped")
    /\ UNCHANGED <<ws, ms, ac, mf, argued, rx, hs, index, poisoned, wire, invoked>>

(* SignalRClient::invoke_internal *)

InvokeBegin(t) ==
    /\ handles > Busy
    /\ RegistryFree
    /\ index < MaxCalls
    /\ LET n == increment(index)
           id == create_key(t, n)
           nc == NewCall("invoke", t, n, id)
       IN  /\ index' = n
           /\ data' = Insert(data, poisoned, id, InvocationAction(Len(calls) + 1))
           /\ calls' = Append(calls, IF InsertOk(data, poisoned, id) THEN nc ELSE FutureCancel(nc))
    /\ UNCHANGED <<ws, ms, ac, mf, argued, rx, hs, poisoned, wire, handles, tokens, ctxs, invoked, receiver>>

\* a defect: the error path of the send removes the action of the call
InvokeSendRemovesOnError(c, ok) ==
    /\ calls[c].op = "invoke" /\ calls[c].pc = "send"
    /\ wire' = SinkSend(wire, with_invocation_id(create_single(calls[c].target), calls[c].id))
    /\ calls' = [calls EXCEPT ![c] =
                    IF ok THEN [@ EXCEPT !.pc = "await", !.awake = TRUE]
                    ELSE [@ EXCEPT !.pc = "done", !.ret = "SendError"]]
    /\ data' = IF ok THEN data ELSE Remove(data, poisoned, calls[c].id)
    /\ UNCHANGED <<ws, ms, ac, mf, argued, rx, hs, index, poisoned, handles, tokens, ctxs, invoked, receiver>>

\* the frame is handed to the connection; on Ok the future is awaited, on an
\* error the error is returned
InvokeSend(c, ok) ==
    /\ calls[c].op = "invoke" /\ calls[c].pc = "send"
    /\ wire' = SinkSend(wire, with_invocation_id(create_single(calls[c].target), calls[c].id))
    /\ calls' = [calls EXCEPT ![c] =
                    IF ok THEN [@ EXCEPT !.pc = "await", !.awake = TRUE]
                    ELSE [@ EXCEPT !.pc = "done", !.ret = "SendError"]]
    /\ UNCHANGED <<ws, ms, ac, mf, argued, rx, hs, index, data, poisoned, handles, tokens, ctxs, invoked, receiver>>

InvokePoll(c) ==
    /\ calls[c].op = "invoke" /\ calls[c].pc = "await" /\ calls[c].awake
    /\ calls' = [calls EXCEPT ![c] = FuturePoll(@)]
    /\ UNCHANGED <<ws, ms, ac, mf, argued, rx, hs, index, data, poisoned, wire, handles, tokens, ctxs, invoked, receiver>>

(* SignalRClient::send_internal *)

\* a defect: send allocates an invocation id as invoke does
SendWithId(t, ok) ==
    /\ handles > Busy
    /\ Cardinality({c \in DOMAIN calls : calls[c].op = "send"}) < MaxSends
    /\ index' = increment(index)
    /\ wire' = SinkSend(wire, with_invocation_id(create_single(t), create_key(t, increment(index))))
    /\ calls' = Append(calls, [NewCall("send", t, 0, None) EXCEPT
                                  !.pc = "done", !.ret = IF ok THEN "Ok" ELSE "SendError"])
    /\ UNCHANGED <<ws, ms, ac, mf, argued, rx, hs, data, poisoned, handles, tokens, ctxs, invoked, receiver>>

\* send / send_with_args: the Invocation is built and handed to the connection,
\* whose answer is returned
Send(t, ok) ==
    /\ handles > Busy
    /\ Cardinality({c \in DOMAIN calls : calls[c].op = "send"}) < MaxSends
    /\ wire' = SinkSend(wire, create_single(t))
    /\ calls' = Append(calls, [NewCall("send", t, 0, None) EXCEPT
                                  !.pc = "done", !.ret = IF ok THEN "Ok" ELSE "SendError"])
    /\ UNCHANGED <<ws, ms, ac, mf, argued, rx, hs, index, data, poisoned, handles, tokens, ctxs, invoked, receiver>>

(* SignalRClient::enumerate_internal and the consumer of its stream *)

EnumerateBegin(t) ==
    /\ handles > Busy
    /\ RegistryFree
    /\ index < MaxCalls
    /\ LET n == increment(index)
           id == create_key(t, n)
           nc == NewCall("enumerate", t, n, id)
       IN  /\ index' = n
           /\ data' = Insert(data, poisoned, id, EnumerableAction(Len(calls) + 1))
           /\ calls' = Append(calls, IF InsertOk(data, poisoned, id) THEN nc ELSE StreamClose(nc))
    /\ UNCHANGED <<ws, ms, ac, mf, argued, rx, hs, poisoned, wire, handles, tokens, ctxs, invoked, receiver>>

\* the result of the send is discarded: the stream is returned either way
EnumerateSend(c) ==
    /\ calls[c].op = "enumerate" /\ calls[c].pc = "send"
    /\ wire' = SinkSend(wire, with_invocation_id(create_multiple(calls[c].target), calls[c].id))
    /\ calls' = [calls EXCEPT ![c] = [@ EXCEPT !.pc = "consume", !.awake = TRUE]]
    /\ UNCHANGED <<ws, ms, ac, mf, argued, rx, hs, index, data, poisoned, handles, tokens, ctxs, invoked, receiver>>

\* a defect: a rejected send ends the stream
EnumerateSendRejectedCloses(c) ==
    /\ calls[c].op = "enumerate" /\ calls[c].pc = "send"
    /\ wire' = SinkSend(wire, with_invocation_id(create_multiple(calls[c].target), calls[c].id))
    /\ calls' = [calls EXCEPT ![c] = StreamClose([@ EXCEPT !.pc = "consume", !.awake = TRUE,
                                                           !.rejected = TRUE])]
    /\ UNCHANGED <<ws, ms, ac, mf, argued, rx, hs, index, data, poisoned, handles, tokens, ctxs, invoked, receiver>>

\* the connection rejects the frame: `let _ = send(..).await` drops the error
\* and the stream is returned as after a send that succeeded
EnumerateSendRejected(c) ==
    /\ calls[c].op = "enumerate" /\ calls[c].pc = "send"
    /\ wire' = SinkSend(wire, with_invocation_id(create_multiple(calls[c].target), calls[c].id))
    /\ calls' = [calls EXCEPT ![c] = [@ EXCEPT !.pc = "consume", !.awake = TRUE, !.rejected = TRUE]]
    /\ UNCHANGED <<ws, ms, ac, mf, argued, rx, hs, index, data, poisoned, handles, tokens, ctxs, invoked, receiver>>

StreamPoll(c) ==
    /\ calls[c].op = "enumerate" /\ calls[c].pc = "consume" /\ calls[c].awake
    /\ calls' = [calls EXCEPT ![c] = StreamPollNext(@)]
    /\ UNCHANGED <<ws, ms, ac, mf, argued, rx, hs, index, data, poisoned, wire, handles, tokens, ctxs, invoked, receiver>>

\* the caller drops a pending invoke future or a live stream
Abandon(c) ==
    /\ calls[c].pc \in {"await", "consume"}
    /\ calls' = [calls EXCEPT ![c] = [@ EXCEPT !.pc = "abandoned", !.awake = FALSE]]
    /\ UNCHANGED <<ws, ms, ac, mf, argued, rx, hs, index, data, poisoned, wire, handles, tokens, ctxs, invoked, receiver>>

(* SignalRClient::register and the unregistration token *)

Register(t, h) ==
    /\ handles > Busy
    /\ RegistryFree
    /\ Len(tokens) < MaxRegs
    /\ data' = Insert(data, poisoned, t, CallbackAction(h))
    /\ tokens' = Append(tokens, [key |-> t, st |-> "live"])
    /\ UNCHANGED <<ws, ms, ac, mf, argued, rx, hs, index, poisoned, calls, wire, handles, ctxs, invoked, receiver>>

\* a defect: unregister consumes the token and leaves the entry in the map
UnregisterKeepsEntry(i) ==
    /\ tokens[i].st = "live"
    /\ Release(handles, [tokens EXCEPT ![i].st = "used"], ctxs, data, calls, receiver)
    /\ UNCHANGED <<ws, ms, ac, mf, argued, rx, hs, index, poisoned, wire, invoked>>

\* a variant: only the oldest token of a key removes the entry, the token of
\* a later register of the key removes nothing
UnregisterOwnEntryOnly(i) ==
    /\ tokens[i].st = "live"
    /\ RegistryFree
    /\ LET key == tokens[i].key
           own == \A j \in 1..(i - 1) : tokens[j].key # key
           d2 == IF own THEN Remove(data, poisoned, key) ELSE data
           cs2 == IF own /\ key \in DOMAIN data /\ ~poisoned
                  THEN DropAction(calls, data[key]) ELSE calls
       IN  Release(handles, [tokens EXCEPT ![i].st = "used"], ctxs, d2, cs2, receiver)
    /\ UNCHANGED <<ws, ms, ac, mf, argued, rx, hs, index, poisoned, wire, invoked>>

\* StorageUnregistrationHandler::unregister consumes the token
Unregister(i) ==
    /\ tokens[i].st = "live"
    /\ RegistryFree
    /\ LET key == tokens[i].key
           d2 == Remove(data, poisoned, key)
           cs2 == IF key \in DOMAIN data /\ ~poisoned THEN DropAction(calls, data[key]) ELSE calls
       IN  Release(handles, [tokens EXCEPT ![i].st = "used"], ctxs, d2, cs2, receiver)
    /\ UNCHANGED <<ws, ms, ac, mf, argued, rx, hs, index, poisoned, wire, invoked>>

\* dropping the token does not unregister
DropToken(i) ==
    /\ tokens[i].st = "live"
    /\ Release(handles, [tokens EXCEPT ![i].st = "dropped"], ctxs, data, calls, receiver)
    /\ UNCHANGED <<ws, ms, ac, mf, argued, rx, hs, index, poisoned, wire, invoked>>

(* InvocationContext held by a task the handler spawned *)

\* InvocationContext::complete
CtxComplete(i, v, ok) ==
    /\ ctxs[i].st = "live" /\ ctxs[i].res = None
    /\ IF ctxs[i].inv # None
       THEN /\ wire' = SinkSend(wire, create_result(ctxs[i].inv, v))
            /\ ctxs' = [ctxs EXCEPT ![i].res = IF ok THEN "Ok" ELSE "SendError", ![i].val = v]
       ELSE /\ wire' = wire
            /\ ctxs' = [ctxs EXCEPT ![i].res = "NoInvocationId", ![i].val = v]
    /\ UNCHANGED <<ws, ms, ac, mf, argued, rx, hs, index, data, poisoned, calls, handles, tokens, invoked, receiver>>

CtxDrop(i) ==
    /\ ctxs[i].st = "live"
    /\ Release(handles, tokens, [ctxs EXCEPT ![i].st = "dropped"], data, calls, receiver)
    /\ UNCHANGED <<ws, ms, ac, mf, argued, rx, hs, index, poisoned, wire, invoked>>

-----------------------------------------------------------------------------
(* The receive task: Storage::process_message on one inbound record *)

Receiving == receiver \in {"running", "aborted"}

\* records of the current transport message are still to be routed
Reading == Len(rx.routed) < Len(rx.records)

\* the loop over get_messages: the next record of the message is the one
\* processed; a frame outside such a message arrives in a message of its own
Taken(f) ==
    IF Reading
    THEN /\ Parse(rx.records[Len(rx.routed) + 1]) = f
         /\ rx' = [rx EXCEPT !.routed = Append(@, f)]
    ELSE rx' = rx

\* what a Completion frame carries: its result, an error, or neither
Payload(f) == IF f.result # None THEN f.result ELSE IF f.error # None THEN "error" ELSE "void"

\* the record of a processed frame in the calls that were allocated its id
Note(cs, f) ==
    [c \in DOMAIN cs |->
        IF cs[c].id # f.invocationId THEN cs[c]
        ELSE IF f.type = TypeCompletion
        THEN [cs[c] EXCEPT !.first = IF @ = "none" THEN Payload(f) ELSE @,
                           !.again = @ \/ (cs[c].first # "none" /\ cs[c].op = "invoke")]
        ELSE IF cs[c].op # "enumerate"
        THEN cs[c]
        ELSE IF cs[c].first # "none"
        THEN [cs[c] EXCEPT !.late = TRUE]
        ELSE IF f.item \in GoodValues
        THEN [cs[c] EXCEPT !.expect = Append(@, f.item)]
        ELSE cs[c]]

\* the server streams at most MaxItems items to one call: v1, v2, ... in this order
ItemRoom(f) ==
    \A c \in DOMAIN calls :
        calls[c].id = f.invocationId /\ calls[c].first = "none" /\ f.item \in GoodValues
            => Len(calls[c].expect) < MaxItems /\ f.item = ItemValue(Len(calls[c].expect) + 1)

\* a panic inside the receive task: the task ends and its storage clone is
\* dropped; the registry mutex is poisoned when the panic unwinds through it
Panic(cs, underLock) ==
    /\ poisoned' = (poisoned \/ underLock)
    /\ Release(handles, tokens, ctxs, data, cs, "panicked")

\* InvocationAction::update_with on a Completion, followed by Storage::remove
InvocationCompletion(cs, a, f) ==
    IF ParseCompletionOk(f) /\ is_result(f)
    THEN [cs EXCEPT ![a.call] = FutureComplete(cs[a.call], f.result)]
    ELSE DropAction(cs, a)

\* a defect: the Completion leaves the stream open
EnumerableCompletionOpen(cs, a, f) == cs

\* EnumerableAction::update_with on a Completion, followed by Storage::remove
EnumerableCompletion(cs, a, f) ==
    IF ParseCompletionOk(f)
    THEN DropAction([cs EXCEPT ![a.call] = StreamClose(cs[a.call])], a)
    ELSE DropAction(cs, a)

\* EnumerableAction::update_with on a StreamItem
EnumerableItem(cs, a, f) ==
    IF ParseStreamItemOk(f)
    THEN [cs EXCEPT ![a.call] = StreamPush(cs[a.call], f.item)]
    ELSE cs

\* a defect: every reply is routed to the first key allocated
RouteKeyFirst(f) == IF f.type = TypeInvocation THEN f.target ELSE create_key("a", 1)

\* the key Storage::process_message routes a frame by
RouteKey(f) == IF f.type = TypeInvocation THEN f.target ELSE f.invocationId

\* a defect: the context loses the invocation id of the frame
CallbackUpdateWithoutId(a, f) == [handler |-> a.handler, target |-> f.target, inv |-> None]

\* CallbackAction::update_with: the handler is called with a context that
\* carries the invocation
CallbackUpdate(a, f) == [handler |-> a.handler, target |-> f.target, inv |-> f.invocationId]

RecvInvocation(f, keep) ==
    /\ Receiving
    /\ Taken(f)
    /\ f.type = TypeInvocation
    /\ IF ~ParseInvocationOk(f)
       THEN /\ Panic(calls, FALSE)
            /\ UNCHANGED <<ws, ms, ac, mf, argued, hs, index, wire, invoked>>
       ELSE IF ~UpdateFinds(data, poisoned, RouteKey(f))
       THEN UNCHANGED client
       ELSE IF data[RouteKey(f)].kind # "callback"
       THEN /\ Panic(calls, TRUE)
            /\ UNCHANGED <<ws, ms, ac, mf, argued, hs, index, wire, invoked>>
       ELSE /\ Len(invoked) < MaxDispatch
            /\ invoked' = Append(invoked, CallbackUpdate(data[RouteKey(f)], f))
            /\ ctxs' = IF keep
                       THEN Append(ctxs, [inv |-> f.invocationId, st |-> "live",
                                          res |-> None, val |-> None])
                       ELSE ctxs
            /\ UNCHANGED <<ws, ms, ac, mf, argued, hs, index, data, poisoned, calls, wire, handles, tokens, receiver>>

\* an Invocation with the arguments args for a registered callback whose
\* handler calls ctx.argument::<ty>(i); the handler runs inside update
RecvInvocationArgument(f, args, i, ty) ==
    /\ Receiving
    /\ Taken(f)
    /\ f.type = TypeInvocation
    /\ ParseInvocationOk(f)
    /\ UpdateFinds(data, poisoned, RouteKey(f))
    /\ data[RouteKey(f)].kind = "callback"
    /\ Len(invoked) < MaxDispatch
    /\ argued' = Append(argued, [args |-> args, index |-> i, ty |-> ty,
                                 out |-> argument(args, i, ty)])
    /\ IF argument(args, i, ty) = "Panic"
       THEN /\ Panic(calls, TRUE)
            /\ UNCHANGED <<ws, ms, ac, mf, hs, index, wire, invoked>>
       ELSE /\ invoked' = Append(invoked, CallbackUpdate(data[RouteKey(f)], f))
            /\ UNCHANGED <<ws, ms, ac, mf, hs, index, data, poisoned, calls, wire, handles, tokens, ctxs, receiver>>

\* an Invocation for a registered callback whose handler calls register,
\* unregister or invoke on the client of its context before it returns. The
\* handler runs inside update, which holds the lock of the map, and the call
\* locks the map again on the same thread: std::sync::Mutex leaves open whether
\* that lock() panics (unwinds) or never returns.
RecvInvocationReentrant(f, unwinds) ==
    /\ Receiving
    /\ Taken(f)
    /\ f.type = TypeInvocation
    /\ ParseInvocationOk(f)
    /\ UpdateFinds(data, poisoned, RouteKey(f))
    /\ data[RouteKey(f)].kind = "callback"
    /\ Len(invoked) < MaxDispatch
    /\ invoked' = Append(invoked, CallbackUpdate(data[RouteKey(f)], f))
    /\ IF unwinds
       THEN Panic(calls, TRUE)
       ELSE /\ poisoned' = poisoned
            /\ Release(handles, tokens, ctxs, data, calls, "deadlocked")
    /\ UNCHANGED <<ws, ms, ac, mf, argued, hs, index, wire>>

RecvStreamItem(f) ==
    /\ Receiving
    /\ Taken(f)
    /\ f.type = TypeStreamItem
    /\ ItemRoom(f)
    /\ IF f.invocationId = None \/ ~UpdateFinds(data, poisoned, RouteKey(f))
       THEN /\ calls' = Note(calls, f)
            /\ UNCHANGED <<ws, ms, ac, mf, argued, hs, index, data, poisoned, wire, handles, tokens, ctxs, invoked, receiver>>
       ELSE IF data[RouteKey(f)].kind # "stream"
       THEN /\ Panic(Note(calls, f), TRUE)
            /\ UNCHANGED <<ws, ms, ac, mf, argued, hs, index, wire, invoked>>
       ELSE /\ calls' = EnumerableItem(Note(calls, f), data[RouteKey(f)], f)
            /\ UNCHANGED <<ws, ms, ac, mf, argued, hs, index, data, poisoned, wire, handles, tokens, ctxs, invoked, receiver>>

\* logging: the error level of the log facade is enabled, so the arguments of
\* error!(..) are evaluated
RecvCompletion(f, logging) ==
    /\ Receiving
    /\ Taken(f)
    /\ f.type = TypeCompletion
    /\ IF f.invocationId = None \/ ~UpdateFinds(data, poisoned, RouteKey(f))
       THEN /\ calls' = Note(calls, f)
            /\ UNCHANGED <<ws, ms, ac, mf, argued, hs, index, data, poisoned, wire, handles, tokens, ctxs, invoked, receiver>>
       ELSE LET a == data[RouteKey(f)] IN
            IF \/ a.kind = "callback"
               \/ /\ a.kind = "invocation" /\ ParseCompletionOk(f) /\ ~is_result(f)
                  /\ f.error = None /\ logging
            THEN /\ Panic(Note(calls, f), TRUE)
                 /\ UNCHANGED <<ws, ms, ac, mf, argued, hs, index, wire, invoked>>
            ELSE /\ calls' = IF a.kind = "invocation"
                             THEN InvocationCompletion(Note(calls, f), a, f)
                             ELSE EnumerableCompletion(Note(calls, f), a, f)
                 /\ data' = Remove(data, poisoned, RouteKey(f))
                 /\ UNCHANGED <<ws, ms, ac, mf, argued, hs, index, poisoned, wire, handles, tokens, ctxs, invoked, receiver>>

\* a defect: a frame of these types clears the registry
RecvIgnoredClears(f) ==
    /\ Receiving
    /\ Taken(f)
    /\ f.type \in {TypeStreamInvocation, TypeCancelInvocation, TypePing, TypeClose, TypeOther}
    /\ data' = EmptyData
    /\ calls' = DropAll(calls, data)
    /\ UNCHANGED <<ws, ms, ac, mf, argued, hs, index, poisoned, wire, handles, tokens, ctxs, invoked, receiver>>

\* StreamInvocation, CancelInvocation, Ping, Close, Other: logged only
RecvIgnored(f) ==
    /\ Receiving
    /\ Taken(f)
    /\ f.type \in {TypeStreamInvocation, TypeCancelInvocation, TypePing, TypeClose, TypeOther}
    /\ UNCHANGED client

\* a record that does not parse as the envelope (no JSON, no type, a type
\* outside 1..8): start_receiving logs it and takes the next record
RecvUnparsed ==
    /\ Receiving
    /\ Taken(Unparsed)
    /\ UNCHANGED client

\* the inbound stream yields one message carrying the frames fs
TransportRead(fs, isText) ==
    /\ Receiving
    /\ ~Reading
    /\ rx' = [frames |-> IF isText THEN fs ELSE <<>>,
              records |-> get_messages([text |-> isText, txt |-> Encoded(fs)]),
              routed |-> <<>>]
    /\ UNCHANGED client

\* the inbound stream yields an error item: the loop skips it
TransportError ==
    /\ Receiving
    /\ UNCHANGED vars

\* the inbound stream ends (the server closed the connection): the loop and
\* the task finish, and the task's storage clone is dropped
TransportEnds ==
    /\ Receiving
    /\ Release(handles, tokens, ctxs, data, calls, "ended")
    /\ UNCHANGED <<ws, ms, ac, mf, argued, rx, hs, index, poisoned, wire, invoked>>

\* the frames the server may send
InvocationFrames ==
    {Frame(TypeInvocation, id, tg, None, None, None) :
        id \in {None, "k"}, tg \in CallbackTargets \cup AllIds \cup {None}}

StreamItemFrames ==
    {Frame(TypeStreamItem, id, None, None, None, it) :
        id \in KeyUniverse \cup {None}, it \in Payloads}

\* a Completion carries a result, an error, or neither
CompletionFrames(results) ==
    {Frame(TypeCompletion, id, None, res, None, None) :
        id \in KeyUniverse \cup {None}, res \in results \cup {None}}
    \cup {Frame(TypeCompletion, id, None, None, "e", None) : id \in KeyUniverse \cup {None}}

IgnoredFrames ==
    {Frame(ty, None, None, None, None, None) :
        ty \in {TypeStreamInvocation, TypeCancelInvocation, TypePing, TypeClose, TypeOther}}

-----------------------------------------------------------------------------
HandleSteps ==
    \/ CloneHandle
    \/ DropHandle
    \/ ReapReceiver

InvokeSteps(ts) ==
    \/ \E t \in ts : InvokeBegin(t)
    \/ \E c \in DOMAIN calls, ok \in BOOLEAN : InvokeSend(c, ok)
    \/ \E c \in DOMAIN calls : InvokePoll(c)

EnumerateSteps(ts) ==
    \/ \E t \in ts : EnumerateBegin(t)
    \/ \E c \in DOMAIN calls : EnumerateSend(c)
    \/ \E c \in DOMAIN calls : StreamPoll(c)

CallbackSteps ==
    \/ \E t \in CallbackTargets, h \in Handlers : Register(t, h)
    \/ \E i \in DOMAIN tokens : Unregister(i)
    \/ \E i \in DOMAIN tokens : DropToken(i)
    \/ \E i \in DOMAIN ctxs, v \in GoodValues, ok \in BOOLEAN : CtxComplete(i, v, ok)
    \/ \E i \in DOMAIN ctxs : CtxDrop(i)

ReceiveSteps(results) ==
    \/ \E f \in InvocationFrames, keep \in BOOLEAN : RecvInvocation(f, keep)
    \/ \E f \in StreamItemFrames : RecvStreamItem(f)
    \/ \E f \in CompletionFrames(results), logging \in BOOLEAN : RecvCompletion(f, logging)
    \/ \E f \in IgnoredFrames : RecvIgnored(f)
    \/ RecvUnparsed

\* every operation of the client, against a server that sends any frame
Next ==
    \/ HandleSteps
    \/ InvokeSteps(Targets)
    \/ EnumerateSteps(Targets)
    \/ \E c \in DOMAIN calls : Abandon(c)
    \/ CallbackSteps
    \/ ReceiveSteps(Payloads)

Spec == Init /\ [][Next]_vars

\* the application invokes through its handles
NextInvoke ==
    \/ HandleSteps
    \/ InvokeSteps(OneTarget)
    \/ \E c \in DOMAIN calls : Abandon(c)
    \/ ReceiveSteps(Payloads)

SpecInvoke == Init /\ [][NextInvoke]_vars

\* the application enumerates and consumes the streams
NextStream ==
    \/ DropHandle
    \/ ReapReceiver
    \/ EnumerateSteps(OneTarget)
    \/ \E c \in DOMAIN calls : Abandon(c)
    \/ ReceiveSteps({"v1", "bad"})

SpecStream == Init /\ [][NextStream]_vars

\* the application registers callbacks and its handlers complete invocations
NextCallback ==
    \/ HandleSteps
    \/ CallbackSteps
    \/ ReceiveSteps({"v1"})

SpecCallback == Init /\ [][NextCallback]_vars

\* invoke and enumerate calls on several targets through several handles
NextKeys ==
    \/ HandleSteps
    \/ InvokeSteps(Targets)
    \/ EnumerateSteps(Targets)
    \/ \E c \in DOMAIN calls : Abandon(c)

SpecKeys == Init /\ [][NextKeys]_vars

\* calls in flight while the transport fails or the server closes the connection
NextTransport ==
    \/ DropHandle
    \/ ReapReceiver
    \/ InvokeSteps(OneTarget)
    \/ EnumerateSteps(OneTarget)
    \/ \E c \in DOMAIN calls : Abandon(c)
    \/ \E f \in StreamItemFrames : RecvStreamItem(f)
    \/ \E f \in CompletionFrames({"v1"}), logging \in BOOLEAN : RecvCompletion(f, logging)
    \/ TransportError
    \/ TransportEnds

SpecTransport == Init /\ [][NextTransport]_vars

\* the frames a transport message is made of: the reply to an invoke, an item
\* of no stream, a call of the callback, a call whose target is the separator
\* character, a Ping, a Close, and a record with a type outside the protocol
BatchFrames ==
    {Frame(TypeCompletion, create_key("a", 1), None, "v1", None, None),
     Frame(TypeStreamItem, create_key("a", 2), None, None, None, "v1"),
     Frame(TypeInvocation, None, "cb", None, None, None),
     Frame(TypeInvocation, None, RECORD_SEPARATOR, None, None, None),
     Frame(TypePing, None, None, None, None, None),
     Frame(TypeClose, None, None, None, None, None),
     Unparsed}

Batches == UNION {[1..n -> BatchFrames] : n \in 1..MaxBatch}

\* one pass of the loop over the records of the message
Route ==
    /\ Reading
    /\ LET f == Parse(rx.records[Len(rx.routed) + 1])
       IN  \/ RecvInvocation(f, FALSE)
           \/ RecvStreamItem(f)
           \/ \E logging \in BOOLEAN : RecvCompletion(f, logging)
           \/ RecvIgnored(f)
           \/ f = Unparsed /\ RecvUnparsed

\* transport messages of several frames for invokes and a callback
NextFraming ==
    \/ \E t \in OneTarget : InvokeBegin(t)
    \/ \E c \in DOMAIN calls : InvokeSend(c, TRUE)
    \/ \E c \in DOMAIN calls : InvokePoll(c)
    \/ \E t \in CallbackTargets : Register(t, "h1")
    \/ \E fs \in Batches, isText \in BOOLEAN : TransportRead(fs, isText)
    \/ Route

SpecFraming == Init /\ [][NextFraming]_vars

\* handlers reading the arguments of the Invocation they were called with
NextArgument ==
    \/ \E t \in CallbackTargets : Register(t, "h1")
    \/ \E i \in DOMAIN tokens : Unregister(i)
    \/ \E args \in Arguments, i \in 0..MaxArgs, ty \in ArgTypes :
            RecvInvocationArgument(Frame(TypeInvocation, None, "cb", None, None, None), args, i, ty)

SpecArgument == Init /\ [][NextArgument]_vars

\* frames that no call waits for: the frames without a handler in the
\* protocol, and calls of methods a and cb
StrayFrames ==
    IgnoredFrames
        \cup {Frame(TypeInvocation, None, tg, None, None, None) : tg \in OneTarget \cup CallbackTargets}

\* messages of one frame: a stray frame, or a reply, an item or an unknown record
StrayBatches ==
    {<<f>> : f \in StrayFrames
                \cup {Frame(TypeCompletion, create_key("a", 1), None, "v1", None, None),
                      Frame(TypeStreamItem, create_key("a", 2), None, None, None, "v1"),
                      Unparsed}}

\* stray frames arriving while invokes and streams are pending and a callback
\* is registered and unregistered
NextStray ==
    \/ InvokeSteps(OneTarget)
    \/ EnumerateSteps(OneTarget)
    \/ \E t \in CallbackTargets : Register(t, "h1")
    \/ \E i \in DOMAIN tokens : Unregister(i)
    \/ \E fs \in StrayBatches : TransportRead(fs, TRUE)
    \/ Route

SpecStray == Init /\ [][NextStray]_vars

\* one ManualFuture: polls with the same or another waker, one complete or cancel
NextFuture ==
    \/ \E w \in Wakers : ManualFuturePoll(w)
    \/ \E v \in GoodValues : ManualFutureComplete(v)
    \/ ManualFutureCancel

SpecFuture == Init /\ [][NextFuture]_vars

\* one ManualStream: polls from the same or another task, pushes and closes
NextManualStream ==
    \/ \E w \in Wakers : ManualStreamPollNext(w)
    \/ \E v \in GoodValues : ManualStreamPush(v)
    \/ ManualStreamClose

SpecManualStream == Init /\ [][NextManualStream]_vars

\* handlers that use the client of their context while they run
NextReentrant ==
    \/ HandleSteps
    \/ \E t \in CallbackTargets, h \in Handlers : Register(t, h)
    \/ \E i \in DOMAIN tokens : Unregister(i)
    \/ \E i \in DOMAIN tokens : DropToken(i)
    \/ \E f \in InvocationFrames, keep \in BOOLEAN : RecvInvocation(f, keep)
    \/ \E f \in InvocationFrames, unwinds \in BOOLEAN : RecvInvocationReentrant(f, unwinds)
    \/ \E i \in DOMAIN ctxs : CtxDrop(i)

SpecReentrant == Init /\ [][NextReentrant]_vars

\* the server calls the callback registered under cb and asks for its result
CallbackRequest == Frame(TypeInvocation, "k", "cb", None, None, None)

\* fire-and-forget sends among invokes and callbacks, through several handles
NextSend ==
    \/ CloneHandle
    \/ DropHandle
    \/ \E t \in OneTarget, ok \in BOOLEAN : Send(t, ok)
    \/ InvokeSteps(OneTarget)
    \/ \E t \in CallbackTargets : Register(t, "h1")
    \/ RecvInvocation(CallbackRequest, TRUE)
    \/ \E i \in DOMAIN ctxs, ok \in BOOLEAN : CtxComplete(i, "v1", ok)

SpecSend == Init /\ [][NextSend]_vars

\* connect over the polling socket, against a server that sends any records
NextWasm ==
    \/ \E created \in BOOLEAN : WasmConnect(created)
    \/ \E ok \in BOOLEAN : WasmHandshakeSend(ok)
    \/ WasmShook
    \/ WasmPollingLoop
    \/ \E s \in {"Connected", "Disconnected", "Error"} : SocketStatus(s)
    \/ \E m \in SocketMessages : SocketMessage(m)

SpecWasm == Init /\ [][NextWasm]_vars

\* a configuration closure passing values to argument(), for an invoke or
\* send and for an enumerate
NextConfigure ==
    \/ \E t \in OneTarget : Configure(create_single(t))
    \/ \E t \in OneTarget : Configure(create_multiple(t))
    \/ \E v \in RustValues : Argument(v)
    \/ BuildInvocation

SpecConfigure == Init /\ [][NextConfigure]_vars

\* enumerates whose StreamInvocation the connection accepts or rejects,
\* against a server that sends any StreamItem and Completion
NextEnumerate ==
    \/ DropHandle
    \/ ReapReceiver
    \/ EnumerateSteps(OneTarget)
    \/ \E c \in DOMAIN calls : EnumerateSendRejected(c)
    \/ \E c \in DOMAIN calls : Abandon(c)
    \/ \E f \in StreamItemFrames : RecvStreamItem(f)
    \/ \E f \in CompletionFrames({"v1"}), logging \in BOOLEAN : RecvCompletion(f, logging)

SpecEnumerate == Init /\ [][NextEnumerate]_vars

\* connect, then invokes through the client it returned
NextConnect ==
    \/ \E outcome \in HandshakeOutcomes : Connect(outcome)
    \/ HandleSteps
    \/ InvokeSteps(OneTarget)
    \/ ReceiveSteps({"v1"})

SpecConnect == InitConnect /\ [][NextConnect]_vars

\* callbacks registered under names that generated invocation ids also take
NextRegistry ==
    \/ \E t \in CallbackTargets \cup {create_key("a", 1)}, h \in Handlers : Register(t, h)
    \/ \E i \in DOMAIN tokens : Unregister(i)
    \/ InvokeSteps(OneTarget)
    \/ EnumerateSteps(OneTarget)
    \/ \E f \in InvocationFrames : RecvInvocation(f, FALSE)

SpecRegistry == Init /\ [][NextRegistry]_vars

-----------------------------------------------------------------------------
(* Properties *)

Invokes == {c \in DOMAIN calls : calls[c].op = "invoke"}

Streams == {c \in DOMAIN calls : calls[c].op = "enumerate"}

\* the items of a sequence of stream elements, without the end markers
Items(sq) == SelectSeq(sq, LAMBDA x : x # "End")

IsPrefix(p, q) == Len(p) <= Len(q) /\ SubSeq(q, 1, Len(p)) = p

\* what the caller of invoke can observe of each call, and what its completer holds
Futures(cs) ==
    [c \in DOMAIN cs |-> <<cs[c].pc, cs[c].ret, cs[c].val, cs[c].fut, cs[c].fval,
                           cs[c].awake, cs[c].given>>]

\* C1: when a Completion carrying a result is processed for invocation id k,
\* exactly the invoke call that was allocated k resolves, with that result,
\* whatever the order of the Completions: the completer of a call is given
\* nothing but the result of the first Completion that carried its id, it is
\* given that result, the pending call is scheduled to read it, and the call
\* returns it.
C1_ResultRouted ==
    \A c \in Invokes :
        /\ calls[c].given # <<>> => calls[c].given = <<calls[c].first>>
        /\ calls[c].first \in GoodValues => calls[c].given = <<calls[c].first>>
        /\ (calls[c].first \in GoodValues /\ calls[c].pc = "await")
               => calls[c].fut = "Complete" /\ calls[c].fval = calls[c].first /\ calls[c].awake
        /\ (calls[c].pc = "done" /\ calls[c].ret = "Ok") => calls[c].val = calls[c].first

\* the second call has returned its result while the first is still unanswered
C1_Witness ==
    /\ Len(calls) = 2
    /\ calls[1].pc = "await" /\ calls[1].first = "none"
    /\ calls[2].pc = "done" /\ calls[2].ret = "Ok" /\ calls[2].val = "v2"

\* C2: at-most-once completion: the completer of an invoke receives at most
\* one value, and processing a Completion whose id was already completed, or
\* whose key is not in the registry, changes neither a future nor the registry.
C2_AtMostOnce ==
    [][/\ \A c \in DOMAIN calls' : Len(calls'[c].given) <= 1
       /\ \/ data' = data /\ Futures(calls') = Futures(calls)
          \/ \A f \in CompletionFrames(Payloads) :
                ~(/\ \/ f.invocationId \notin DOMAIN data
                     \/ \E c \in Invokes : calls[c].id = f.invocationId /\ calls[c].first # "none"
                  /\ \E logging \in BOOLEAN : RecvCompletion(f, logging))]_vars

\* a call returned its result and a further Completion for its id was processed
C2_Witness ==
    \E c \in Invokes :
        /\ calls[c].pc = "done" /\ calls[c].ret = "Ok" /\ calls[c].val = calls[c].first
        /\ calls[c].again

\* C3: correlation uniqueness: the ids allocated to invoke and enumerate calls
\* are pairwise distinct, each is <target>_<n>, and n strictly increases in
\* allocation order.
C3_CorrelationUnique ==
    \A c, d \in DOMAIN calls :
        /\ calls[c].id = calls[c].target \o "_" \o ToString(calls[c].n)
        /\ c < d => calls[c].n < calls[d].n /\ calls[c].id # calls[d].id

\* an invoke on one target and an enumerate on another were allocated ids
C3_Witness ==
    \E c, d \in DOMAIN calls :
        /\ c < d
        /\ calls[c].op = "enumerate" /\ calls[c].target = "a_1"
        /\ calls[d].op = "invoke" /\ calls[d].target = "a"

\* C4: an invoke whose Completion carried an error, or a result that does not
\* parse as T, terminates with a failure: it is not left pending with nothing
\* scheduled to wake it.
C4_FailureReturned ==
    \A c \in Invokes :
        (calls[c].pc = "await" /\ calls[c].first \in {"error", "bad"}) => calls[c].awake

C6_LastHandleDisconnects ==
    (handles = 0 /\ NumLive(ctxs) = 0)
        => /\ receiver # "running"
           /\ receiver # "aborted" => data = EmptyData

\* C7: stream termination: once a Completion for the id of an enumerate was
\* processed the stream holds an end marker, the end marker is the last
\* element the consumer observes, and the elements delivered to the stream are
\* the items processed before that Completion: no later StreamItem is among
\* them.
C7_StreamTermination ==
    \A c \in Streams :
        /\ calls[c].first # "none"
               => \E i \in DOMAIN (calls[c].observed \o calls[c].queue) :
                      (calls[c].observed \o calls[c].queue)[i] = "End"
        /\ \A i \in 1..(Len(calls[c].observed) - 1) : calls[c].observed[i] # "End"
        /\ Items(calls[c].observed \o calls[c].queue) = calls[c].expect

\* the consumer reached the end of a stream that was sent an item after its Completion
C7_Witness ==
    \E c \in Streams :
        /\ calls[c].pc = "done" /\ calls[c].first # "none" /\ calls[c].late
        /\ Len(calls[c].expect) >= 1

\* C8: the consumer of an enumerate observes the items of the StreamItems
\* processed before the Completion, in the order they were processed, then
\* end-of-sequence; under every interleaving of polls and dispatch what it has
\* observed is a prefix of them and it is never left asleep on a non-empty queue.
C8_StreamOrder ==
    \A c \in Streams :
        /\ IsPrefix(Items(calls[c].observed), calls[c].expect)
        /\ (calls[c].pc = "done" /\ calls[c].first # "none")
               => calls[c].observed = calls[c].expect \o <<"End">>
        /\ (calls[c].pc = "consume" /\ calls[c].queue # <<>>) => calls[c].awake

\* the consumer observed MaxItems items, in order, and then the end
C8_Witness ==
    \E c \in Streams :
        /\ calls[c].pc = "done" /\ calls[c].first # "none"
        /\ Len(calls[c].expect) >= 2
        /\ calls[c].observed = calls[c].expect \o <<"End">>

\* C9: callback routing: processing an Invocation frame with target X while a
\* callback is registered under X calls its handler exactly once, with a
\* context carrying that invocation, and leaves the callback registered.
C9_CallbackRouting ==
    [][\A f \in InvocationFrames :
        (/\ f.target \in DOMAIN data
         /\ data[f.target].kind = "callback"
         /\ \E keep \in BOOLEAN : RecvInvocation(f, keep))
        => /\ invoked' = Append(invoked, [handler |-> data[f.target].handler,
                                          target |-> f.target, inv |-> f.invocationId])
           /\ f.target \in DOMAIN data'
           /\ data'[f.target] = data[f.target]]_vars

\* two Invocation frames were routed to the callback that is still registered
C9_Witness ==
    /\ Len(invoked) = 2
    /\ "cb" \in DOMAIN data /\ data["cb"].kind = "callback"
    /\ \A i \in 1..2 : invoked[i].handler = data["cb"].handler /\ invoked[i].target = "cb"
    /\ invoked[1].inv = "k" /\ invoked[2].inv = None

\* C10: InvocationContext::complete(v) hands exactly one Completion with the
\* invocation id of the inbound invocation and result v to the transport; on an
\* invocation without id it fails with NoInvocationId and hands over nothing.
C10_ContextComplete ==
    /\ \A i \in DOMAIN ctxs :
          ctxs[i].res # None =>
              IF ctxs[i].inv # None
              THEN /\ ctxs[i].res \in {"Ok", "SendError"}
                   /\ \E j \in DOMAIN wire :
                          wire[j] = [type |-> TypeCompletion, invocationId |-> ctxs[i].inv,
                                     target |-> None, result |-> ctxs[i].val,
                                     error |-> None, item |-> None]
              ELSE ctxs[i].res = "NoInvocationId"
    /\ Len(wire) = Cardinality({i \in DOMAIN ctxs : ctxs[i].res \in {"Ok", "SendError"}})

\* one context completed its invocation, another had no invocation id
C10_Witness ==
    \E i, j \in DOMAIN ctxs :
        /\ ctxs[i].inv = "k" /\ ctxs[i].res = "Ok" /\ ctxs[i].val = "v2"
        /\ ctxs[j].inv = None /\ ctxs[j].res = "NoInvocationId"
        /\ Len(wire) = 1

\* the token was used to unregister and its target was not registered again since
Unregistered(tk, i) ==
    /\ tk[i].st = "used"
    /\ \A j \in DOMAIN tk : j > i => tk[j].key # tk[i].key

\* C11: after unregister() on the token of register(X, h) no Invocation frame
\* with target X invokes h: while the receive loop can process frames the
\* registry holds nothing under X (until X is registered again), and a handler
\* is only ever called for a frame whose target holds that handler's callback.
C11_Unregister ==
    [][/\ \A i \in DOMAIN tokens' :
            (Unregistered(tokens', i) /\ receiver' \in {"running", "aborted"})
                => tokens'[i].key \notin DOMAIN data'
       /\ invoked' # invoked
            => /\ Len(invoked') = Len(invoked) + 1
               /\ LET e == invoked'[Len(invoked')]
                  IN  /\ e.target \in DOMAIN data
                      /\ data[e.target].kind = "callback"
                      /\ data[e.target].handler = e.handler]_vars

\* the handler was called, then its token unregistered it, and frames are still processed
C11_Witness ==
    /\ Len(invoked) >= 1 /\ invoked[1].target = "cb"
    /\ Len(tokens) = 1 /\ tokens[1].key = "cb" /\ tokens[1].st = "used"
    /\ "cb" \notin DOMAIN data
    /\ receiver = "running" /\ handles >= 1

\* C12: registry keys are unique: an insert under a key that is present is
\* rejected and the entry under the key stays as it was, so a second register
\* for a registered target leaves the first handler in place and the handler
\* called for a frame is the one the registry held under its target.
C12_KeysUnique ==
    [][/\ \A k \in DOMAIN data \cap DOMAIN data' : data'[k] = data[k]
       /\ (Len(tokens') > Len(tokens) /\ tokens'[Len(tokens')].key \in DOMAIN data)
            => data' = data
       /\ (Len(calls') > Len(calls) /\ calls'[Len(calls')].id \in DOMAIN data)
            => data' = data
       /\ invoked' # invoked
            => LET e == invoked'[Len(invoked')]
               IN  e.target \in DOMAIN data' /\ data'[e.target].handler = e.handler]_vars

\* the target was registered twice and a frame was routed to the handler in place
C12_Witness ==
    /\ Len(tokens) = 2 /\ tokens[1].key = "cb" /\ tokens[2].key = "cb"
    /\ tokens[1].st = "live" /\ tokens[2].st = "live"
    /\ "cb" \in DOMAIN data
    /\ Len(invoked) >= 1
    /\ invoked[Len(invoked)].target = "cb"
    /\ invoked[Len(invoked)].handler = data["cb"].handler

\* C13: connect returns a client only if the handshake request was answered by
\* a handshake response without an error field; otherwise no client and no
\* receive loop exist.
C13_HandshakeChecked ==
    hs \notin {"idle", "response"} => handles = 0 /\ receiver = "idle"

\* C14: a malformed inbound record never ends the receive loop: the receive
\* task does not die while parsing a record (a death outside the registry
\* lock), so the records after it are still routed.
C14_MalformedDiscarded ==
    ~(receiver = "panicked" /\ ~poisoned)

\* C15: no inbound frame makes process_message or the action it routes to
\* panic: the receive task is never killed by a panic and the registry mutex is
\* never poisoned.
C15_NoPanic ==
    receiver # "panicked" /\ ~poisoned

\* C18: a Completion with neither result nor error for a pending invoke ends
\* the invocation normally: nothing panics, the registry entry is removed and
\* the awaiting caller is scheduled to receive its outcome.
C18_VoidCompletion ==
    \A c \in Invokes :
        calls[c].first = "void"
            => /\ receiver # "panicked" /\ ~poisoned
               /\ calls[c].id \notin DOMAIN data
               /\ calls[c].pc = "await" => calls[c].awake


\* a ManualStream that was pushed its end marker
Closed(c) ==
    \E i \in DOMAIN (calls[c].observed \o calls[c].queue) :
        (calls[c].observed \o calls[c].queue)[i] = "End"

\* C16: once the receive loop has ended with the inbound stream, every
\* outstanding action is cancelled although handles are still held: no
\* registry entry is left, the future of a pending invoke is completed and
\* the stream of a live enumerate is closed.
C16_LoopEndCancels ==
    receiver = "ended"
        => /\ data = EmptyData
           /\ \A c \in Invokes : calls[c].pc = "await" => calls[c].fut = "Complete"
           /\ \A c \in Streams : calls[c].pc = "consume" => Closed(c)

Sends == {c \in DOMAIN calls : calls[c].op = "send"}

\* w2 is w with the one frame f handed over after it
Appended(w, w2, f) == Len(w2) = Len(w) + 1 /\ SubSeq(w2, 1, Len(w)) = w /\ w2[Len(w2)] = f

\* C19: send is fire-and-forget: a send hands exactly one Invocation frame
\* without invocationId for its target to the transport, leaves the registry
\* and the invocation counter as they were, and has returned the transport's
\* answer in that same step, with nothing left to wait for; no registry entry
\* ever belongs to a send.
C19_SendFireAndForget ==
    [][/\ (Len(calls') > Len(calls) /\ calls'[Len(calls')].op = "send")
            => LET s == calls'[Len(calls')]
               IN  /\ Appended(wire, wire', Frame(TypeInvocation, None, s.target, None, None, None))
                   /\ data' = data
                   /\ index' = index
                   /\ s.pc = "done" /\ s.ret \in {"Ok", "SendError"}
                   /\ s.fut = "Incomplete" /\ s.id = None
       /\ \A k \in DOMAIN data' :
            data'[k].kind # "callback" => calls'[data'[k].call].op # "send"]_vars

\* a send has returned Ok while an invoke begun before it is still pending and
\* holds the only registry entry
C19_Witness ==
    \E s \in Sends, c \in Invokes :
        /\ c < s /\ calls[s].ret = "Ok" /\ calls[c].pc = "await"
        /\ DOMAIN data = {calls[c].id} /\ index = 1
        /\ wire[Len(wire)] = create_single(calls[s].target)

C21_Framing ==
    /\ \A f \in BatchFrames :
          LET e == to_json(f)
          IN  /\ e[Len(e)] = RECORD_SEPARATOR
              /\ \A k \in 1..(Len(e) - 1) : e[k] # RECORD_SEPARATOR
    /\ rx.records = [k \in DOMAIN rx.frames |-> to_string(rx.frames[k])]
    /\ \A k \in DOMAIN rx.records : rx.records[k] # <<>>
    /\ IsPrefix(rx.routed, rx.frames)

\* one message carried the Completion of the invoke and a call of the callback:
\* the caller got the value and the handler was called
C21_Witness ==
    /\ Len(rx.frames) = 2 /\ rx.routed = rx.frames
    /\ rx.frames[1].type = TypeCompletion /\ rx.frames[2].type = TypeInvocation
    /\ \E c \in Invokes : calls[c].pc = "done" /\ calls[c].val = "v1"
    /\ Len(invoked) = 1


\* C22: argument::<T>(index) returns the value when the argument at the index
\* exists and deserializes as T, and an error value otherwise; it never panics.
C22_ArgumentTotal ==
    \A k \in DOMAIN argued :
        LET a == argued[k]
            present == a.args.some /\ a.index < Len(a.args.list)
        IN  /\ a.out # "Panic"
            /\ a.out = "Ok" <=> (present /\ Deserializes(a.args.list[a.index + 1], a.ty))


\* C23: clones share one registry and one transport: the drop of a handle
\* while another handle exists changes nothing but the number of handles
\* (receive task, registry, counter, calls and their futures, wire are as
\* before), and while a handle exists the receive task is never aborted.
C23_ClonesShare ==
    [][/\ (handles' = handles - 1 /\ handles' >= 1)
            => /\ receiver' = receiver
               /\ data' = data /\ index' = index /\ poisoned' = poisoned
               /\ calls' = calls /\ wire' = wire /\ tokens' = tokens
       /\ handles' >= 1 => receiver' \notin {"aborted", "stopped"}]_vars

\* two handles had invokes in flight at once (the call begun second was
\* written first); one handle was dropped since; an invoke of the remaining
\* handle is pending in the registry and the receive task runs
C23_Witness ==
    /\ handles = 1 /\ receiver = "running"
    /\ Len(wire) = 2
    /\ wire[1].invocationId = create_key("a", 2)
    /\ wire[2].invocationId = create_key("a", 1)
    /\ \E c \in Invokes : calls[c].pc = "await" /\ calls[c].id \in DOMAIN data


\* C24: while the client lives the action of an invoke or enumerate is in the
\* registry exactly as long as no Completion for its id has been processed:
\* it is there from its creation, and the Completion routed to it removes it.
C24_RegistryLifetime ==
    handles >= 1
        => \A c \in Invokes \cup Streams :
               calls[c].first = "none" <=> calls[c].id \in DOMAIN data


\* C25: a handler that calls a registry operation through the client of its
\* context while it runs completes: whenever the handler of the latest
\* invocation was called the receive task has neither blocked on the registry
\* mutex nor unwound with it held.
C25_HandlerUsesRegistry ==
    Len(invoked) >= 1 => (receiver # "deadlocked" /\ ~poisoned)


\* C26: processing a StreamItem whose invocationId names a pending invoke
\* leaves the invocation registered and its future as it was, and the receive
\* task goes on as before.
C26_StreamItemForInvocation ==
    [][\A f \in StreamItemFrames :
          (/\ f.invocationId \in DOMAIN data
           /\ data[f.invocationId].kind = "invocation"
           /\ RecvStreamItem(f))
              => /\ receiver' = receiver /\ poisoned' = poisoned
                 /\ data' = data
                 /\ Futures(calls') = Futures(calls)]_vars


\* C27: processing a Close frame begins teardown: once a Close of the current
\* transport message has been processed the receive task is no longer in its
\* normal receiving state.
C27_CloseBeginsTeardown ==
    (\E k \in DOMAIN rx.routed : rx.routed[k].type = TypeClose) => receiver # "running"


\* C28: processing a Ping, StreamInvocation, CancelInvocation or Other frame,
\* or an Invocation whose target has no entry in the registry, adds no entry,
\* removes no entry and completes nothing: registry, counter, every call with
\* its future or stream, and the receive task are as before.
C28_StrayFramesIgnored ==
    [][(/\ Len(rx'.routed) = Len(rx.routed) + 1
        /\ LET f == rx'.routed[Len(rx'.routed)]
           IN  \/ f.type \in {TypePing, TypeStreamInvocation, TypeCancelInvocation, TypeOther}
               \/ f.type = TypeInvocation /\ f.target \notin DOMAIN data)
          => /\ data' = data /\ index' = index /\ poisoned' = poisoned
             /\ calls' = calls
             /\ invoked' = invoked
             /\ receiver' = receiver]_vars

\* a call of cb was processed after cb was unregistered, while an invoke waits
\* in the registry for its reply
C28_Witness ==
    /\ Len(rx.routed) = 1 /\ rx.routed[1].type = TypeInvocation /\ rx.routed[1].target = "cb"
    /\ Len(tokens) = 1 /\ tokens[1].st = "used" /\ invoked = <<>>
    /\ \E c \in Invokes : calls[c].pc = "await" /\ calls[c].fut = "Waiting"
                             /\ calls[c].id \in DOMAIN data


\* the waker of the latest poll: the one the awaiting task is parked on when
\* that poll returned Pending
Parked(f) == IF f.polled = <<>> THEN NoWaker ELSE f.polled[Len(f.polled)]

\* C29: a ManualFuture completed once with v, under every interleaving of the
\* complete with polls that use the same or another waker: while the value
\* has not been taken it is v and ready for the next poll, and a task that
\* polled before the complete has had the waker of its latest poll woken (no
\* wake-up is lost), and no other waker is woken after a later poll replaced
\* it; the polls return v once and nothing else.
C29_FutureCompletes ==
    mf.used = "complete"
        => /\ mf.state = "Complete"
           /\ Len(mf.got) <= 1
           /\ mf.got = <<>> => (mf.value \in GoodValues /\ (mf.polled # <<>> => Parked(mf) \in mf.woken))
           /\ mf.got # <<>> => mf.value = None
           /\ Cardinality(mf.woken) <= 1

\* the task polled with one waker, then with another, was woken by the
\* complete on the other and took the value with its next poll
C29_Witness ==
    /\ mf.used = "complete" /\ mf.got = <<"v1">>
    /\ Len(mf.polled) = 3 /\ mf.polled[1] # mf.polled[2]
    /\ mf.woken = {mf.polled[2]}

\* C30: cancelling the completer wakes a task that had polled the future: the
\* waker of its latest poll is woken, so that it polls again and observes the
\* end.
C30_CancelWakesWaiter ==
    (mf.used = "cancel" /\ mf.polled # <<>>) => Parked(mf) \in mf.woken


\* C31: in the single-threaded adapter the connection state only moves
\* Connect -> Handshake -> Process, one state at a time and never back; the
\* handshake request is handed to the socket only after a run of the polling
\* loop has seen the socket Connected; and a record is handed to the registry
\* only in the Process state.
C31_StateOrder ==
    [][/\ ws'.state # ws.state
            => <<ws.state, ws'.state>> \in {<<"Connect", "Handshake">>, <<"Handshake", "Process">>}
       /\ ws'.sent # ws.sent => ws.reported /\ ws.state = "Connect"
       /\ ws'.routed # ws.routed => ws.state = "Process"
       /\ \A k \in DOMAIN ws'.routed : ws'.routed[k].state = "Process"]_vars

\* connect returned the client after the handshake, and a Ping that arrived
\* afterwards was handed to the registry
C31_Witness ==
    /\ ws.pc = "ok" /\ ws.state = "Process"
    /\ ws.sent = <<"HandshakeRequest">>
    /\ ws.lost = <<HandshakeOk>>
    /\ Len(ws.routed) = 1 /\ ws.routed[1].record = PingRecord


\* C40: in the Handshake state of the single-threaded adapter a run of the
\* polling loop completes the handshake only when it received exactly one
\* record; a run that received another number of records leaves the handshake
\* and connect as they were and drops every record it received (none is
\* routed, none is kept for a later run); connect leaves its wait for the
\* handshake only once the handshake has been completed.
C40_HandshakeOneRecord ==
    [][/\ (ws.state = "Handshake" /\ ws.inbox # <<>> /\ ws'.inbox = <<>>)
            => LET messages == receive_messages(ws.inbox)
               IN  /\ ws'.routed = ws.routed
                   /\ ws'.lost = ws.lost \o messages
                   /\ Len(messages) # 1 => ws'.handshake = ws.handshake /\ ws'.pc = ws.pc
       /\ (ws.handshake = "Incomplete" /\ ws'.handshake # "Incomplete")
            => Len(receive_messages(ws.inbox)) = 1 /\ ws'.inbox = <<>>
       /\ (ws.pc = "await_handshake" /\ ws'.pc # "await_handshake")
            => ws.handshake \in {"true", "false"}]_vars

\* the handshake response arrived batched with a Ping: both records were
\* dropped and connect is still waiting for the handshake
C40_Witness ==
    /\ ws.lost = <<HandshakeOk, PingRecord>>
    /\ ws.msgs = 1 /\ ws.inbox = <<>>
    /\ ws.state = "Handshake" /\ ws.handshake = "Incomplete" /\ ws.pc = "await_handshake"


\* what the frames processed so far that carry the id of a call amount to
Processed(c) == <<c.first, c.again, c.late, c.expect>>

\* C32: after the consumer dropped the stream of an enumerate, a StreamItem
\* or a Completion carrying its id is processed harmlessly: the receive task
\* goes on, nothing panics, nothing is written to the transport (no
\* CancelInvocation), no other call and no other registry entry is touched,
\* and the Completion removes the entry of the dropped stream. The drop itself
\* writes nothing and leaves the registry as it is.
C32_DroppedStream ==
    [][\A c \in Streams :
          /\ (calls[c].pc = "abandoned" /\ Processed(calls'[c]) # Processed(calls[c]))
                => /\ receiver' = receiver /\ poisoned' = poisoned
                   /\ wire' = wire
                   /\ \A d \in DOMAIN calls \ {c} : calls'[d] = calls[d]
                   /\ \A k \in DOMAIN data \ {calls[c].id} :
                          k \in DOMAIN data' /\ data'[k] = data[k]
                   /\ calls'[c].first # "none" => calls[c].id \notin DOMAIN data'
                   /\ calls'[c].pc = "abandoned"
          /\ (calls[c].pc # "abandoned" /\ calls'[c].pc = "abandoned")
                => wire' = wire /\ data' = data /\ receiver' = receiver]_vars

\* the consumer polled an empty stream and dropped it; then an item and the
\* Completion for its id were processed: the entry is gone, the receive task
\* runs, and only the StreamInvocation was ever written
C32_Witness ==
    \E c \in Streams :
        /\ calls[c].pc = "abandoned" /\ calls[c].awake /\ calls[c].observed = <<>>
        /\ calls[c].queue = <<"v1", "End">>
        /\ calls[c].first # "none"
        /\ calls[c].id \notin DOMAIN data
        /\ receiver = "running"
        /\ Len(wire) = 1 /\ wire[1].type = TypeStreamInvocation


\* the values of a sequence that serialize, as their JSON, in order
RECURSIVE Serialized(_)
Serialized(vs) ==
    IF vs = <<>> THEN <<>>
    ELSE IF to_json_value(Head(vs)).ok
    THEN <<to_json_value(Head(vs)).json>> \o Serialized(Tail(vs))
    ELSE Serialized(Tail(vs))

\* C33: the arguments of the invocation being built are exactly the JSON of
\* the values passed to argument() that serialized, in call order (a value
\* that does not serialize leaves no slot: later arguments move down), and the
\* invocation that is built and sent carries exactly these arguments, whether
\* or not a value failed to serialize.
C33_ArgumentsBuilt ==
    /\ ac.arguments = Serialized(ac.passed)
    /\ ac.sent # <<>>
          => /\ ac.sent[1].arguments = Serialized(ac.passed)
             /\ ac.sent[1].invocation = ac.invocation[1]
             /\ Len(ac.sent[1].arguments)
                    = Cardinality({k \in DOMAIN ac.passed : to_json_value(ac.passed[k]).ok})

\* a String, a value that does not serialize and an integer were passed: the
\* invocation was sent with two arguments, the integer in the second place
C33_Witness ==
    /\ ac.passed = <<"String", "TupleKeyMap", "i32">>
    /\ ac.sent # <<>>
    /\ ac.sent[1].arguments = <<"string", "number">>
    /\ ac.sent[1].invocation.type = TypeInvocation


\* C34: the action of every invoke and enumerate call is in the registry
\* when its frame is handed to the transport, so that a reply finds it: while
\* a call whose frame was handed over waits and no Completion for its id has
\* been processed, the registry holds the action of that call under its id.
C34_InsertedBeforeSend ==
    \A c \in Invokes \cup Streams :
        (calls[c].pc \in {"await", "consume"} /\ calls[c].first = "none")
            => /\ calls[c].id \in DOMAIN data
               /\ data[calls[c].id].call = c


\* C35: when the transport rejects the frame of an invoke, invoke returns the
\* send error in that step, without waiting on its future, and the step
\* leaves the registry as it was; the action inserted for the call then stays
\* in the registry for as long as no Completion for its id is processed and a
\* handle of the client is held.
C35_SendErrorKeepsAction ==
    [][\A c \in Invokes :
          /\ (calls[c].pc = "send" /\ calls'[c].ret = "SendError")
                => /\ calls'[c].pc = "done"
                   /\ calls'[c].fut = calls[c].fut /\ calls'[c].fval = calls[c].fval
                   /\ calls'[c].given = calls[c].given /\ calls'[c].val = None
                   /\ data' = data
          /\ (/\ calls[c].ret = "SendError"
              /\ calls[c].id \in DOMAIN data /\ data[calls[c].id].call = c
              /\ Processed(calls'[c]) = Processed(calls[c])
              /\ handles' >= 1)
                => calls[c].id \in DOMAIN data' /\ data'[calls[c].id] = data[calls[c].id]]_vars

\* the first invoke returned the send error and its action is still in the
\* registry after a second invoke through the same handle returned its result
C35_Witness ==
    /\ Len(calls) = 2
    /\ calls[1].op = "invoke" /\ calls[1].pc = "done" /\ calls[1].ret = "SendError"
    /\ calls[1].id \in DOMAIN data /\ data[calls[1].id].call = 1
    /\ calls[2].op = "invoke" /\ calls[2].pc = "done" /\ calls[2].ret = "Ok"
    /\ DOMAIN data = {calls[1].id}
    /\ receiver = "running" /\ handles = 1


\* C36: enumerate ignores the outcome of its send: the step in which the
\* connection rejects the StreamInvocation returns the stream to the caller
\* and leaves the registry, with the action of the call, as it was; and while
\* the action of such a call is registered and no frame carrying its id has
\* been processed (the server never received the request) the stream holds
\* nothing to yield: no item and no end marker, and its consumer has
\* observed nothing.
C36_EnumerateIgnoresSend ==
    [][\A c \in DOMAIN calls' :
          calls'[c].rejected
              => /\ c \in DOMAIN calls /\ calls[c].pc = "send"
                    => /\ calls'[c].pc = "consume"
                       /\ data' = data
                       /\ calls'[c].ret = None
                 /\ (/\ calls'[c].id \in DOMAIN data' /\ data'[calls'[c].id].call = c
                     /\ Processed(calls'[c]) = <<"none", FALSE, FALSE, <<>>>>)
                       => /\ calls'[c].queue = <<>> /\ calls'[c].observed = <<>>
                          /\ calls'[c].pc \in {"consume", "abandoned"}]_vars

\* a first enumerate was accepted and its consumer has reached the end of its
\* stream; the next enumerate was rejected by the connection: its consumer
\* polled and sleeps on the empty stream, and its action is registered
C36_Witness ==
    /\ Len(calls) = 2
    /\ calls[1].op = "enumerate" /\ ~calls[1].rejected /\ calls[1].pc = "done"
    /\ calls[1].observed = <<"v1", "End">>
    /\ calls[2].op = "enumerate" /\ calls[2].rejected /\ calls[2].pc = "consume"
    /\ calls[2].waker /\ ~calls[2].awake /\ calls[2].queue = <<>>
    /\ DOMAIN data = {calls[2].id} /\ data[calls[2].id].call = 2
    /\ receiver = "running"


\* the second register of a key was rejected: the token of the first is
\* live, so the entry it stored is the one in the registry
Rejected(tk, d) ==
    /\ Len(tk) = 2 /\ tk[1].key = tk[2].key
    /\ tk[1].st = "live"
    /\ tk[1].key \in DOMAIN d /\ d[tk[1].key].kind = "callback"

\* C37: the token returned by a register that was rejected because its target
\* was registered names that target: unregister on it removes the entry of
\* the first handler, although the token of the first register is still
\* held, and from then on no frame for the target calls a handler (while the
\* receive loop processes frames).
C37_RejectedTokenUnregisters ==
    [][/\ (/\ Rejected(tokens, data) /\ tokens[2].st = "live" /\ tokens'[2].st = "used"
           /\ receiver' \in {"running", "aborted"})
            => /\ tokens[2].key \notin DOMAIN data'
               /\ tokens'[1].st = "live"
       /\ (/\ Len(tokens) = 2 /\ tokens[1].key = tokens[2].key
           /\ tokens[1].st = "live" /\ tokens[2].st = "used"
           /\ receiver \in {"running", "aborted"})
            => /\ tokens[2].key \notin DOMAIN data
               /\ Len(invoked') > Len(invoked)
                    => invoked'[Len(invoked')].target # tokens[2].key]_vars

\* cb was registered with h1, which was called; a second register of cb was
\* rejected; unregister on its token removed the entry of h1 while the token
\* of the first register is still held and the receive loop runs
C37_Witness ==
    /\ Len(tokens) = 2 /\ tokens[1].key = "cb" /\ tokens[2].key = "cb"
    /\ tokens[1].st = "live" /\ tokens[2].st = "used"
    /\ Len(invoked) = 1 /\ invoked[1].target = "cb" /\ invoked[1].handler = "h1"
    /\ "cb" \notin DOMAIN data
    /\ receiver = "running" /\ handles >= 1


\* C38: disconnect acts only on the last reference to the connection: when a
\* handle goes while another clone of the client exists, be it a handle, a
\* kept invocation context or the clone inside a registered callback, the
\* receive task, the registry, the calls and the wire are as before; and the
\* receive task is aborted only by a step that leaves no reference.
C38_DisconnectLastReference ==
    [][/\ (handles' = handles - 1 /\ ConnRefs(handles', ctxs, data) >= 1)
            => /\ receiver' = receiver
               /\ data' = data /\ poisoned' = poisoned
               /\ calls' = calls /\ wire' = wire
               /\ tokens' = tokens /\ ctxs' = ctxs
       /\ (receiver = "running" /\ receiver' = "aborted")
            => /\ ConnRefs(handles, ctxs, data) = 1
               /\ ConnRefs(handles', ctxs', data') = 0]_vars

\* the application dropped its only handle while a callback was registered:
\* the clone inside the callback keeps the connection, the receive task runs
\* and called the handler
C38_Witness ==
    /\ handles = 0 /\ NumLive(ctxs) = 0
    /\ "cb" \in DOMAIN data /\ data["cb"].kind = "callback"
    /\ receiver = "running"
    /\ Len(invoked) >= 1


\* C39: ManualStream loses no wake-up.  A step that queues an item or the
\* end marker while the consumer is parked after a Pending wakes the waker
\* the consumer is parked on; so in no state is the queue non-empty while
\* the consumer is parked: a parked consumer has its own waker registered
\* and an empty queue.
C39_NoLostWakeup ==
    /\ [](ms.asleep # NoWaker => (ms.queue = <<>> /\ ms.waker = ms.asleep))
    /\ [][(ms.asleep # NoWaker /\ Len(ms'.queue) > Len(ms.queue))
            => /\ ms'.asleep = NoWaker
               /\ ms'.woken = Append(ms.woken, ms.asleep)
               /\ ms'.waker = NoWaker]_vars

\* the consumer was parked on waker 1 when an item was pushed and on waker 2
\* when the stream was closed; both were woken and the polls that followed
\* returned the item and the end
C39_Witness ==
    /\ ms.woken = <<1, 2>>
    /\ ms.got = <<ItemValue(1), "End">>
    /\ ms.polls = 4 /\ ms.pushed = 2
    /\ ms.queue = <<>> /\ ms.asleep = NoWaker

====
